---- MODULE Spec2Model ----
(***************************************************************************)
(* fastapi-cacheable: the global cache registry (CacheConfig), the Redis   *)
(* backend, the key derivation and the three interception wrappers         *)
(* (cacheable, cache_put, cache_evict) as a state machine.                 *)
(*                                                                         *)
(* A wrapped call is a coroutine: every `await` of the source is a step    *)
(* boundary, the code between two awaits is one atomic step.               *)
(***************************************************************************)
EXTENDS Integers, Sequences, FiniteSets, TLC

VARIABLES
    initialized,    \* CacheConfig._initialized
    backend,        \* CacheConfig._backend ("None" or a backend object)
    defaultFormat,  \* serializer._DEFAULT_FORMAT
    redis,          \* the Redis server: redis key -> [data, ttl]
    calls,          \* slot -> the wrapper coroutine running there
    expired,        \* redis keys whose entry Redis dropped at its ttl
    cfgOp,          \* the last CacheConfig call and how it ended
    lastInit,       \* backend given to the most recent successful init
    inits,          \* successful inits since the last reset
    wrappers,       \* the wrappers the decorators have returned so far
    decoOp,         \* the last application of a decorator and how it ended
    probe           \* a key derivation or a serializer round trip in progress

vars == <<initialized, backend, defaultFormat, redis, calls, expired, cfgOp, lastInit,
          inits, wrappers, decoOp, probe>>

\* what only decoration and the pure functions touch
Aside == <<wrappers, decoOp, probe>>

(***************************************************************************)
(* Bounds of the model.                                                    *)
(***************************************************************************)
\* ticks an entry stored with the demo's ttl survives (30 s in the demo)
DemoTtl == 2
\* ticks an entry stored with the shortest ttl survives
ShortTtl == 1
\* successful inits counted before the counter saturates
MaxInits == 2

(***************************************************************************)
(* Python values.  Every value is a record [t, s, items]: t the type, s    *)
(* the scalar payload as text, items the children.                         *)
(***************************************************************************)
PyVal(t, s, items) == [t |-> t, s |-> s, items |-> items]
PyNone == PyVal("none", "", <<>>)
PyInt(n) == PyVal("int", ToString(n), <<>>)
PyStr(x) == PyVal("str", x, <<>>)
PyList(items) == PyVal("list", "", items)
PyTuple(items) == PyVal("tuple", "", items)
\* a dict is its items in insertion order, each a (key, value) pair
PyItem(k, v) == PyVal("item", "", <<k, v>>)
PyDict(pairs) == PyVal("dict", "", pairs)
\* an instance of a class no encoder knows
PyInstance(name) == PyVal("instance", name, <<>>)
PyBool(x) == PyVal("bool", x, <<>>)
\* the rich types, each with the text str()/isoformat() gives
PyDecimal(x) == PyVal("decimal", x, <<>>)
PyUuid(x) == PyVal("uuid", x, <<>>)
PyDatetime(x) == PyVal("datetime", x, <<>>)
PyBytes(x) == PyVal("bytes", x, <<>>)
\* a member of the Enum class cls whose value is v
PyEnum(cls, v) == PyVal("enum", cls, <<v>>)
PySet(items) == PyVal("set", "", items)
\* a parameter no argument and no default is bound to
Absent == PyVal("absent", "", <<>>)

\* the items of a dict as Python compares dicts: without their order
DictItems(v) == {v.items[i] : i \in 1..Len(v.items)}
\* v == w for the values used here (dicts and sets hold scalars)
PyEq(v, w) ==
    IF v.t = w.t /\ v.t \in {"dict", "set"} THEN DictItems(v) = DictItems(w)
    ELSE v = w

\* the items a dict comprehension over pairs leaves: of two pairs with the
\* same key the later one wins
LastWins(pairs) ==
    SelectSeq([i \in 1..Len(pairs) |->
                  IF \E j \in (i + 1)..Len(pairs) :
                        pairs[j].items[1] = pairs[i].items[1]
                  THEN Absent ELSE pairs[i]],
              LAMBDA it : it # Absent)

\* the value stored under the str key k of a dict
DictGet(d, k) ==
    d.items[CHOOSE i \in 1..Len(d.items) : d.items[i].items[1] = PyStr(k)].items[2]
DictHas(d, k) == \E i \in 1..Len(d.items) : d.items[i].items[1] = PyStr(k)

\* raised inside a conversion
ConvError == PyVal("error", "", <<>>)
IsError(v) == v.t = "error"

\* some element of the sequence is a conversion error
AnyError(q) == \E i \in 1..Len(q) : IsError(q[i])

(***************************************************************************)
(* serializer.py                                                           *)
(***************************************************************************)
Formats == {"json", "pickle", "msgpack"}
NoFormat == "None"
ModuleDefaultFormat == "json"

\* str(key) of a dict key, as json.dumps writes it (str, int keys)
JsonKeyText(k) == k.s

\* a member "name": doc of a JSON object
JsonMember(name, doc) == PyVal("member", name, <<doc>>)
\* the object JSONEncoder.default answers: {"__type__": t, "value": doc}
JsonTagged(t, doc) ==
    PyVal("object", "", <<JsonMember("__type__", PyVal("string", t, <<>>)),
                          JsonMember("value", doc)>>)

\* json.dumps(data, cls=JSONEncoder): the JSON document, or ConvError
RECURSIVE JsonDumps(_)
JsonDumps(v) ==
    CASE v.t = "none" -> PyVal("null", "", <<>>)
      [] v.t = "int" -> PyVal("number", v.s, <<>>)
      [] v.t = "str" -> PyVal("string", v.s, <<>>)
      [] v.t = "bool" -> PyVal("boolean", v.s, <<>>)
      [] v.t \in {"datetime", "uuid", "decimal", "bytes"} ->
            JsonTagged(v.t, PyVal("string", v.s, <<>>))
      [] v.t = "enum" ->
            PyVal("object", "",
                  <<JsonMember("__type__", PyVal("string", "enum", <<>>)),
                    JsonMember("name", PyVal("string", v.s, <<>>)),
                    JsonMember("value", JsonDumps(v.items[1]))>>)
      [] v.t = "set" ->
            LET kids == [i \in 1..Len(v.items) |-> JsonDumps(v.items[i])]
            IN  IF AnyError(kids) THEN ConvError
                ELSE JsonTagged("set", PyVal("array", "", kids))
      [] v.t \in {"list", "tuple"} ->
            LET kids == [i \in 1..Len(v.items) |-> JsonDumps(v.items[i])]
            IN  IF AnyError(kids) THEN ConvError
                ELSE PyVal("array", "", kids)
      [] v.t = "dict" ->
            LET kids == [i \in 1..Len(v.items) |->
                            LET k == v.items[i].items[1]
                                w == JsonDumps(v.items[i].items[2])
                            IN  IF k.t \notin {"str", "int"} \/ IsError(w)
                                THEN ConvError
                                ELSE JsonMember(JsonKeyText(k), w)]
            IN  IF AnyError(kids) THEN ConvError
                ELSE PyVal("object", "", kids)
      [] OTHER -> ConvError

\* _json_object_hook(obj) for a decoded JSON object
json_object_hook(obj) ==
    IF ~DictHas(obj, "__type__") THEN obj
    ELSE LET obj_type == DictGet(obj, "__type__").s IN
         CASE obj_type \in {"datetime", "uuid", "decimal", "bytes"} ->
                    PyVal(obj_type, DictGet(obj, "value").s, <<>>)
           [] obj_type = "enum" -> PyEnum(DictGet(obj, "name").s, DictGet(obj, "value"))
           [] obj_type = "set" -> PySet(DictGet(obj, "value").items)
           [] OTHER -> obj

\* json.loads(text, object_hook=_json_object_hook)
RECURSIVE JsonLoads(_)
JsonLoads(doc) ==
    CASE doc.t = "null" -> PyNone
      [] doc.t = "number" -> PyVal("int", doc.s, <<>>)
      [] doc.t = "string" -> PyStr(doc.s)
      [] doc.t = "boolean" -> PyBool(doc.s)
      [] doc.t = "array" ->
            PyList([i \in 1..Len(doc.items) |-> JsonLoads(doc.items[i])])
      [] doc.t = "object" ->
            json_object_hook(
                PyDict(LastWins([i \in 1..Len(doc.items) |->
                           PyItem(PyStr(doc.items[i].s),
                                  JsonLoads(doc.items[i].items[1]))])))
      [] OTHER -> ConvError

\* the bytes a format writes: the format that wrote them and their content
Wire(fmt, body) == [t |-> "bytes", fmt |-> fmt, body |-> body]

serialize_json(data) == JsonDumps(data)
deserialize_json(body) == JsonLoads(body)
serialize_pickle(data) == data
deserialize_pickle(body) == body
serialize_msgpack(data) == JsonDumps(data)
deserialize_msgpack(body) == JsonLoads(body)

\* serialize(data): bytes in the default format, or ConvError (ValueError)
serialize(data, fmt) ==
    LET body == CASE fmt = "json" -> serialize_json(data)
                  [] fmt = "pickle" -> serialize_pickle(data)
                  [] fmt = "msgpack" -> serialize_msgpack(data)
    IN  IF IsError(body) THEN ConvError ELSE Wire(fmt, body)

\* deserialize(raw): the value, or ConvError (ValueError); bytes of another
\* format do not parse
deserialize(raw, fmt) ==
    IF raw.fmt # fmt THEN ConvError
    ELSE CASE fmt = "json" -> deserialize_json(raw.body)
           [] fmt = "pickle" -> deserialize_pickle(raw.body)
           [] fmt = "msgpack" -> deserialize_msgpack(raw.body)

(***************************************************************************)
(* key_builder.py and decorators._build_cache_key.  A cache key is the     *)
(* sequence of its ':'-separated segments, so "users:vip" is               *)
(* <<"users", "vip">> and the namespace None is <<>>.                      *)
(***************************************************************************)
NsNone == <<>>
KeyNone == ""
DefaultExcluded == {"request", "response", "db", "session", "self"}

\* DefaultKeyBuilder._make_json_safe
RECURSIVE make_json_safe(_)
make_json_safe(obj) ==
    CASE obj.t \in {"str", "int", "bool", "none"} -> obj
      [] obj.t \in {"datetime", "uuid", "decimal", "bytes"} -> PyStr(obj.s)
      [] obj.t = "enum" -> obj.items[1]
      [] obj.t \in {"list", "tuple"} ->
            PyList([i \in 1..Len(obj.items) |-> make_json_safe(obj.items[i])])
      [] obj.t = "dict" ->
            PyDict(LastWins([i \in 1..Len(obj.items) |->
                       PyItem(PyStr(obj.items[i].items[1].s),
                              make_json_safe(obj.items[i].items[2]))]))
      [] OTHER -> PyStr("repr(" \o obj.s \o ")")

RECURSIVE JoinText(_)
JoinText(q) ==
    IF q = <<>> THEN ""
    ELSE IF Len(q) = 1 THEN q[1]
    ELSE q[1] \o "," \o JoinText(Tail(q))

\* json.dumps without sort_keys: the members in insertion order
RECURSIVE CanonJson_Unsorted(_)
CanonJson_Unsorted(v) ==
    CASE v.t = "none" -> "null"
      [] v.t = "int" -> v.s
      [] v.t = "bool" -> IF v.s = "True" THEN "true" ELSE "false"
      [] v.t = "str" -> "'" \o v.s \o "'"
      [] v.t = "list" ->
            "[" \o JoinText([i \in 1..Len(v.items) |->
                                CanonJson_Unsorted(v.items[i])]) \o "]"
      [] v.t = "dict" ->
            "{" \o JoinText([i \in 1..Len(v.items) |->
                                v.items[i].items[1].s \o ":"
                                    \o CanonJson_Unsorted(v.items[i].items[2])]) \o "}"
      [] OTHER -> "?"

\* json.dumps(obj, sort_keys=True, separators=(",", ":")) of a json-safe
\* value; sorting makes the members of an object a set
RECURSIVE CanonJson(_)
CanonJson(v) ==
    CASE v.t = "none" -> "null"
      [] v.t = "int" -> v.s
      [] v.t = "bool" -> IF v.s = "True" THEN "true" ELSE "false"
      [] v.t = "str" -> "'" \o v.s \o "'"
      [] v.t = "list" ->
            "[" \o JoinText([i \in 1..Len(v.items) |-> CanonJson(v.items[i])]) \o "]"
      [] v.t = "dict" ->
            ToString({v.items[i].items[1].s \o ":" \o CanonJson(v.items[i].items[2]) :
                        i \in 1..Len(v.items)})
      [] OTHER -> "?"

\* hashlib.sha256(raw).hexdigest(), collision-free
Sha256Hex(raw) == "sha256(" \o raw \o ")"

\* a filter that lets every bound argument through
filtered_kwargs_for_key_All(bound, excluded_params) == bound

\* _filtered_kwargs_for_key: the bound arguments, in signature order, that
\* are not excluded
filtered_kwargs_for_key(bound, excluded_params) ==
    SelectSeq(bound, LAMBDA it : it.items[1].s \notin excluded_params)

\* `excluded_params or {"request", "response", "db", "session", "self"}`;
\* excluded_params is None (supplied false) or the set the caller supplied,
\* and both None and the empty set are falsy
Excluded(excluded_params) ==
    IF ~excluded_params.supplied \/ excluded_params.names = {} THEN DefaultExcluded
    ELSE excluded_params.names

\* sig.bind_partial(*args, **kwargs) and apply_defaults(): the parameters
\* in signature order, each with the positional argument, else the keyword
\* argument, else the default
Bind(sig, args, kwargs) ==
    SelectSeq([i \in 1..Len(sig) |->
                  PyItem(PyStr(sig[i].name),
                         IF i <= Len(args) THEN args[i]
                         ELSE IF \E j \in 1..Len(kwargs) : kwargs[j].items[1].s = sig[i].name
                         THEN kwargs[CHOOSE j \in 1..Len(kwargs) :
                                        kwargs[j].items[1].s = sig[i].name].items[2]
                         ELSE sig[i].default)],
              LAMBDA it : it.items[2] # Absent)

\* a key that always names the function, whatever `key` says
DefaultCacheKey_FuncIdentity(func, bound, namespace, key, excluded_params) ==
    namespace \o <<func,
        Sha256Hex(CanonJson(make_json_safe(PyDict(
            filtered_kwargs_for_key(bound, Excluded(excluded_params))))))>>

\* _build_cache_key without a custom key_builder
DefaultCacheKey(func, bound, namespace, key, excluded_params) ==
    LET excluded == Excluded(excluded_params)
        filtered == filtered_kwargs_for_key(bound, excluded)
        key_id == IF key = KeyNone THEN func ELSE key
        json_safe == make_json_safe(PyDict(filtered))
        raw == CanonJson(json_safe)
        args_hash == Sha256Hex(raw)
    IN  namespace \o <<key_id, args_hash>>

(***************************************************************************)
(* The wrapped operations.  The first four are the demo application's;     *)
(* the others configure the same decorators with the remaining options.    *)
(***************************************************************************)
Deco(kind, func, params, namespace, key, ttl) ==
    [kind |-> kind, func |-> func, params |-> params, namespace |-> namespace,
     key |-> key, ttl |-> ttl, condition |-> "None", unless |-> "None",
     all_entries |-> FALSE, before_invocation |-> FALSE,
     excluded_params |-> [supplied |-> FALSE, names |-> {}],
     key_builder |-> "None"]

Users == <<"users">>
UsersVip == <<"users", "vip">>
Orders == <<"orders">>
Reports == <<"reports">>
Items == <<"items">>

Decorator(name) ==
    CASE name = "get_user" ->
            Deco("cacheable", "demo.get_user", <<"user_id">>, Users, "get_user", DemoTtl)
      [] name = "refresh_user" ->
            Deco("cache_put", "demo.refresh_user", <<"user_id">>, Users, "get_user", DemoTtl)
      [] name = "evict_user" ->
            Deco("cache_evict", "demo.evict_user", <<"user_id">>, Users, "get_user", 0)
      [] name = "evict_all_users" ->
            [Deco("cache_evict", "demo.evict_all_users", <<>>, Users, KeyNone, 0)
                EXCEPT !.all_entries = TRUE]
      [] name = "get_vip" ->
            Deco("cacheable", "app.get_vip", <<"user_id">>, UsersVip, KeyNone, ShortTtl)
      [] name = "get_order" ->
            [Deco("cacheable", "app.get_order", <<"user_id">>, Orders, KeyNone, ShortTtl)
                EXCEPT !.condition = "is7", !.unless = "is_none"]
      [] name = "put_order" ->
            [Deco("cache_put", "app.put_order", <<"user_id">>, Orders, "app.get_order", ShortTtl)
                EXCEPT !.condition = "is7", !.unless = "is_none"]
      [] name = "purge_user" ->
            [Deco("cache_evict", "app.purge_user", <<"user_id">>, Users, "get_user", 0)
                EXCEPT !.before_invocation = TRUE]
      [] name = "purge_all_users" ->
            [Deco("cache_evict", "app.purge_all_users", <<>>, Users, KeyNone, 0)
                EXCEPT !.all_entries = TRUE, !.before_invocation = TRUE]
      [] name = "evict_order_if" ->
            [Deco("cache_evict", "app.evict_order_if", <<"user_id">>, Orders, "app.get_order", 0)
                EXCEPT !.condition = "is7"]
      [] name = "evict_no_ns" ->
            Deco("cache_evict", "app.evict_no_ns", <<"user_id">>, NsNone, KeyNone, 0)
      [] name = "sync_get" ->
            Deco("cacheable", "app.sync_get", <<"user_id">>, Users, KeyNone, DemoTtl)
      [] name = "sync_put" ->
            Deco("cache_put", "app.sync_put", <<"user_id">>, Users, KeyNone, DemoTtl)
      [] name = "sync_evict" ->
            Deco("cache_evict", "app.sync_evict", <<"user_id">>, Users, KeyNone, 0)
      [] name = "get_report" ->
            [Deco("cacheable", "app.get_report", <<"user_id">>, Reports, KeyNone, DemoTtl)
                EXCEPT !.key_builder = "tenant"]
      [] name = "put_report" ->
            [Deco("cache_put", "app.put_report", <<"user_id">>, Reports, KeyNone, DemoTtl)
                EXCEPT !.key_builder = "tenant"]
      [] name = "evict_report" ->
            [Deco("cache_evict", "app.evict_report", <<"user_id">>, Reports, KeyNone, 0)
                EXCEPT !.key_builder = "tenant"]
      [] name = "get_audit" ->
            [Deco("cacheable", "app.get_audit", <<"user_id">>, Reports, "audit", DemoTtl)
                EXCEPT !.key_builder = "raising"]
      [] name = "put_audit" ->
            [Deco("cache_put", "app.put_audit", <<"user_id">>, Reports, "audit", DemoTtl)
                EXCEPT !.key_builder = "raising"]
      [] name = "evict_audit" ->
            [Deco("cache_evict", "app.evict_audit", <<"user_id">>, Reports, "audit", 0)
                EXCEPT !.key_builder = "raising"]
      [] name = "get_plain" ->
            Deco("cacheable", "app.get_audit", <<"user_id">>, Reports, "audit", DemoTtl)
      [] name = "get_item" ->
            [Deco("cacheable", "app.get_item", <<"user_id">>, Items, "item", DemoTtl)
                EXCEPT !.condition = "known", !.unless = "empty"]
      [] name = "put_item" ->
            [Deco("cache_put", "app.put_item", <<"user_id">>, Items, "item", DemoTtl)
                EXCEPT !.condition = "known", !.unless = "empty"]
      [] name = "refresh_item" ->
            Deco("cache_put", "app.refresh_item", <<"user_id">>, Items, "item", DemoTtl)
      [] name = "evict_item" ->
            [Deco("cache_evict", "app.evict_item", <<"user_id">>, Items, "item", 0)
                EXCEPT !.condition = "known"]
      [] name = "purge_items" ->
            [Deco("cache_evict", "app.purge_items", <<"user_id">>, Items, KeyNone, 0)
                EXCEPT !.condition = "known", !.all_entries = TRUE,
                       !.before_invocation = TRUE]

DemoDecorators == {"get_user", "refresh_user", "evict_user", "evict_all_users"}
AllDecorators == DemoDecorators \cup
    {"get_vip", "get_order", "put_order", "purge_user", "purge_all_users",
     "evict_order_if"}
\* the operations decorated with a custom key_builder, and get_audit's twin
\* without one
StrategyDecorators ==
    {"get_report", "put_report", "evict_report", "get_audit", "put_audit",
     "evict_audit", "get_plain"}
\* the operations on items: guarded by predicates that can raise, and
\* refresh_item without a guard
GuardedDecorators ==
    {"get_item", "put_item", "refresh_item", "evict_item", "purge_items"}
\* plain functions (def, not async def) somebody decorates
SyncFunctions == {"sync_get", "sync_put", "sync_evict"}
\* every coroutine function the application decorates
Operations ==
    AllDecorators \cup StrategyDecorators \cup GuardedDecorators \cup {"evict_no_ns"}

\* a decorator that does not look at the function
ensure_async_Never(name) == ""

\* _ensure_async(func): the error it raises, "" if nothing
ensure_async(name) == IF name \in SyncFunctions THEN "TypeError" ELSE ""

\* cacheable(...)(func), cache_put(...)(func), cache_evict(...)(func):
\* _ensure_async, then the wrapper is returned
Decorate(name) ==
    /\ decoOp' = [name |-> name, err |-> ensure_async(name)]
    /\ wrappers' = IF ensure_async(name) = "" THEN wrappers \cup {name} ELSE wrappers
    /\ UNCHANGED <<initialized, backend, defaultFormat, redis, calls, expired, cfgOp,
                   lastInit, inits, probe>>

\* sig.bind_partial(*args, **kwargs) of a call with user_id = a
BoundArguments(d, a) ==
    [i \in 1..Len(Decorator(d).params) |->
        PyItem(PyStr(Decorator(d).params[i]), PyInt(a))]

\* what key_builder.build raised
BuildRaised == <<"", "Exception">>

\* key_builder.build(func, (), filtered_kwargs) of the application's
\* strategies: "tenant" answers tenant:<name>=<value>..., "raising" raises
KeyBuilderBuild(key_builder, func, filtered) ==
    IF key_builder = "tenant"
    THEN <<"tenant">> \o [i \in 1..Len(filtered) |->
            filtered[i].items[1].s \o "=" \o ToString(filtered[i].items[2])]
    ELSE BuildRaised

\* _build_cache_key that lets the error of key_builder.build through
BuildCacheKey_NoTry(D, bound) ==
    IF D.key_builder # "None"
    THEN KeyBuilderBuild(D.key_builder, D.func,
            filtered_kwargs_for_key(bound, Excluded(D.excluded_params)))
    ELSE DefaultCacheKey(D.func, bound, D.namespace, D.key, D.excluded_params)

\* _build_cache_key of a decorator configured as D for the bound arguments
BuildCacheKey(D, bound) ==
    LET custom == KeyBuilderBuild(D.key_builder, D.func,
                    filtered_kwargs_for_key(bound, Excluded(D.excluded_params)))
    IN  IF D.key_builder # "None" /\ custom # BuildRaised THEN custom
        ELSE DefaultCacheKey(D.func, bound, D.namespace, D.key, D.excluded_params)

\* _build_cache_key for a call of d with user_id = a
build_cache_key(d, a) == BuildCacheKey(Decorator(d), BoundArguments(d, a))

\* a wrapper that takes every condition for true
call_condition_Always(cond, a) == TRUE

\* condition(*args, **kwargs): "is7" is lambda user_id: user_id == 7,
\* "known" is lambda user_id: KNOWN[user_id] over KNOWN = {7: True, 8: False}
call_condition(cond, a) == IF cond \in {"is7", "known"} THEN a = 7 ELSE TRUE

\* a wrapper that catches the error of the condition and goes on with its
\* answer
call_condition_raises_Never(cond, a) == FALSE

\* the call condition(*args, **kwargs) raises: KNOWN[user_id] is a KeyError
\* for any other user_id
call_condition_raises(cond, a) == cond = "known" /\ a \notin {7, 8}

\* unless(result): "is_none" is lambda result: result is None, "empty" is
\* lambda result: len(result) == 0
call_unless(unl, result) ==
    CASE unl = "is_none" -> result = PyNone
      [] unl = "empty" -> result.s = "" /\ result.items = <<>>
      [] OTHER -> FALSE

\* the call unless(result) raises: len() of a value without a length is a
\* TypeError
call_unless_raises(unl, result) ==
    unl = "empty" /\ result.t \notin {"str", "list", "tuple", "dict", "set", "bytes"}

(***************************************************************************)
(* config.py: CacheConfig                                                  *)
(***************************************************************************)
Backends == {"b1", "b2"}
NotABackend == "object"
BackendNone == "None"

is_initialized == initialized

\* CacheConfig.get_backend(): the backend, or the error it raises
get_backend ==
    IF ~initialized \/ backend = BackendNone THEN "CacheConfigError" ELSE backend

\* init without its `if cls._initialized` guard
InitError_NoReinitGuard(b) ==
    IF b \notin Backends THEN "CacheConfigError" ELSE ""

\* what CacheConfig.init(b, ...) raises, "" if nothing
InitError(b) ==
    IF initialized THEN "CacheConfigError"
    ELSE IF b \notin Backends THEN "CacheConfigError"
    ELSE ""

Running == {s \in DOMAIN calls : calls[s].pc \notin {"idle", "done"}}

CacheConfigInit(b, f) ==
    /\ IF InitError(b) # ""
       THEN /\ cfgOp' = [op |-> "init", b |-> b, f |-> f, err |-> InitError(b)]
            /\ UNCHANGED <<initialized, backend, defaultFormat, lastInit, inits>>
       ELSE /\ backend' = b
            /\ defaultFormat' = IF f # NoFormat THEN f ELSE defaultFormat
            /\ initialized' = TRUE
            /\ cfgOp' = [op |-> "init", b |-> b, f |-> f, err |-> ""]
            /\ lastInit' = b
            /\ inits' = IF inits < MaxInits THEN inits + 1 ELSE inits
    /\ UNCHANGED <<redis, calls, expired, Aside>>

\* reset that forgets `cls._initialized = False`
CacheConfigReset_KeepsFlag ==
    /\ Running = {}
    /\ backend' = BackendNone
    /\ cfgOp' = [op |-> "reset", b |-> "", f |-> "", err |-> ""]
    /\ inits' = 0
    /\ UNCHANGED <<initialized, defaultFormat, redis, calls, expired, lastInit, Aside>>

\* CacheConfig.reset(): test teardown, so no wrapped call is in flight
CacheConfigReset ==
    /\ Running = {}
    /\ backend' = BackendNone
    /\ initialized' = FALSE
    /\ cfgOp' = [op |-> "reset", b |-> "", f |-> "", err |-> ""]
    /\ inits' = 0
    /\ UNCHANGED <<defaultFormat, redis, calls, expired, lastInit, Aside>>

\* serializer.set_default_format(format), exported by the package
SetDefaultFormat(f) ==
    /\ defaultFormat' = f
    /\ cfgOp' = [op |-> "set_default_format", b |-> "", f |-> f, err |-> ""]
    /\ UNCHANGED <<initialized, backend, redis, calls, expired, lastInit, inits, Aside>>

(***************************************************************************)
(* backend/redis.py: RedisCacheBackend over one Redis server               *)
(***************************************************************************)
key_prefix(b) == IF b = "b1" THEN "demo" ELSE "fastapi-cacheable"

\* RedisCacheBackend._builld_key
builld_key(b, key) == <<key_prefix(b)>> \o key

\* an entry of the server: the bytes and the seconds left; age (seconds
\* since it was set) and by (the call that set it) are history
Entry(data, ttl, by) == [data |-> data, ttl |-> ttl, age |-> 0, by |-> by]
NoEntry == [data |-> ConvError, ttl |-> 0, age |-> 0,
            by |-> [d |-> "", a |-> 0, result |-> PyNone]]
EntryAt(store, rk) == IF rk \in DOMAIN store THEN store[rk] ELSE NoEntry

\* client.set(name, value, ex=ttl)
RedisSet(store, rk, data, ttl, by) ==
    [k \in DOMAIN store \cup {rk} |->
        IF k = rk THEN Entry(data, ttl, by) ELSE store[k]]

\* client.delete(*keys)
RedisDelete(store, ks) == [k \in DOMAIN store \ ks |-> store[k]]

\* the fixed part of the pattern RedisCacheBackend.clear builds, before ":*"
ClearPattern(b, namespace) ==
    IF namespace # NsNone /\ namespace # <<"">>
    THEN <<key_prefix(b)>> \o namespace
    ELSE <<key_prefix(b)>>

\* client.keys(pattern ":*"): the keys that start with the pattern and ':'
KeysMatching(ks, pattern) ==
    {k \in ks : Len(k) > Len(pattern) /\ SubSeq(k, 1, Len(pattern)) = pattern}

RedisKeys(store, pattern) == KeysMatching(DOMAIN store, pattern)

\* a get that forgets _builld_key and asks for the bare cache key
BackendGet_NoPrefix(store, rk) ==
    IF Tail(rk) \notin DOMAIN store THEN PyNone
    ELSE deserialize(store[Tail(rk)].data, defaultFormat)

\* RedisCacheBackend.get once client.get has answered: the value, None for
\* an absent key, ConvError when deserialize raises
BackendGet(store, rk) ==
    IF rk \notin DOMAIN store THEN PyNone
    ELSE deserialize(store[rk].data, defaultFormat)

\* one second passes: Redis drops the entries whose ttl has elapsed
Tick ==
    /\ DOMAIN redis # {}
    /\ redis' = [k \in {j \in DOMAIN redis : redis[j].ttl > 1} |->
                    [redis[k] EXCEPT !.ttl = @ - 1, !.age = @ + 1]]
    /\ expired' = expired \cup {j \in DOMAIN redis : redis[j].ttl <= 1}
    /\ UNCHANGED <<initialized, backend, defaultFormat, calls, cfgOp, lastInit, inits, Aside>>

(***************************************************************************)
(* decorators.py: the wrappers.  A call record is the coroutine's frame:   *)
(* pc is the await it is suspended at, trace the events of the call.       *)
(***************************************************************************)
NoOutcome == [st |-> "none", val |-> PyNone, err |-> ""]
Returned(v) == [st |-> "ret", val |-> v, err |-> ""]
Raised(e) == [st |-> "raise", val |-> PyNone, err |-> e]

\* nothing is remembered of the call that ran before
NoPrev == [d |-> "", a |-> 0, ev |-> "", result |-> PyNone]

IdleCall ==
    [pc |-> "idle", d |-> "", a |-> 0, bypass |-> FALSE, key |-> <<>>,
     cached |-> PyNone, result |-> PyNone, keys |-> {}, outcome |-> NoOutcome,
     trace |-> <<>>, seen |-> {}, found |-> NoEntry, lapsed |-> FALSE,
     prev |-> NoPrev]

Log(c, ev) == [c EXCEPT !.trace = Append(@, ev)]
Finish(c, out) == [c EXCEPT !.pc = "done", !.outcome = out]
Goto(c, pc) == [c EXCEPT !.pc = pc]

Frame == <<initialized, backend, defaultFormat, cfgOp, lastInit, inits, Aside>>

\* a request reaches the wrapper of d with user_id = a
Call(s, d, a) ==
    /\ d \in wrappers
    /\ calls[s].pc \in {"idle", "done"}
    /\ calls' = [calls EXCEPT ![s] = [IdleCall EXCEPT !.pc = "enter", !.d = d, !.a = a]]
    /\ UNCHANGED <<redis, expired, Frame>>

\* the same request, remembering the call that finished just before it:
\* its operation, argument, last event and result (history)
CallNext(s, d, a) ==
    /\ d \in wrappers
    /\ calls[s].pc \in {"idle", "done"}
    /\ calls' = [calls EXCEPT ![s] =
            [IdleCall EXCEPT !.pc = "enter", !.d = d, !.a = a,
                             !.prev = [d |-> calls[s].d, a |-> calls[s].a,
                                       ev |-> IF calls[s].trace = <<>> THEN ""
                                              ELSE calls[s].trace[Len(calls[s].trace)],
                                       result |-> calls[s].result]]]
    /\ UNCHANGED <<redis, expired, Frame>>

\* a wrapper that does not call _ensure_initialized
ensure_initialized_Skipped == ""

\* _ensure_initialized(): the error it raises, "" if nothing
ensure_initialized == IF ~is_initialized THEN "CacheNotInitializedError" ELSE ""

\* a hit test by truth value: `if cached`
IsHit_Truthy(cached) ==
    /\ cached # PyNone
    /\ cached \notin {PyInt(0), PyBool("False")}
    /\ ~(cached.t \in {"str", "list", "tuple", "dict", "set", "bytes"}
          /\ cached.s = "" /\ cached.items = <<>>)

\* the hit test of cacheable: `if cached is not None`
IsHit(cached) == cached # PyNone

\* a wrapper that ignores before_invocation
EvictFirst_Never(D) == FALSE

\* cache_evict: whether _evict runs before func
EvictFirst(D) == D.before_invocation

\* a cache_evict wrapper that evicts after the operation whether or not it
\* did before
AfterInvoke_EvictAgain(c) ==
    LET D == Decorator(c.d) IN
    CASE c.bypass -> Finish(c, Returned(c.result))
      [] D.kind = "cacheable" ->
            IF D.unless # "None" THEN Goto(c, "unless") ELSE Goto(c, "store")
      [] D.kind = "cache_put" ->
            IF D.condition # "None" THEN Goto(c, "cond")
            ELSE IF D.unless # "None" THEN Goto(c, "unless")
            ELSE Goto(c, "store")
      [] D.kind = "cache_evict" -> Goto(c, "evict")

\* where the wrapper goes once func has returned
AfterInvoke(c) ==
    LET D == Decorator(c.d) IN
    CASE c.bypass -> Finish(c, Returned(c.result))
      [] D.kind = "cacheable" ->
            IF D.unless # "None" THEN Goto(c, "unless") ELSE Goto(c, "store")
      [] D.kind = "cache_put" ->
            IF D.condition # "None" THEN Goto(c, "cond")
            ELSE IF D.unless # "None" THEN Goto(c, "unless")
            ELSE Goto(c, "store")
      [] D.kind = "cache_evict" ->
            IF EvictFirst(D) THEN Finish(c, Returned(c.result))
            ELSE Goto(c, "evict")

\* the wrapper's first step: _ensure_initialized, then (cacheable,
\* cache_evict) the condition
EnterStep(c) ==
    LET D == Decorator(c.d) IN
    IF ensure_initialized # "" THEN Finish(c, Raised(ensure_initialized))
    ELSE CASE D.kind = "cache_put" -> Goto(c, "invoke")
           [] D.condition # "None" /\ call_condition_raises(D.condition, c.a) ->
                Finish(Log(c, "cond.err"), Raised("PredicateError"))
           [] D.condition # "None" /\ ~call_condition(D.condition, c.a) ->
                Goto([Log(c, "cond") EXCEPT !.bypass = TRUE], "invoke")
           [] OTHER ->
                LET c1 == IF D.condition # "None" THEN Log(c, "cond") ELSE c IN
                IF D.kind = "cacheable" THEN Goto(c1, "lookup")
                ELSE IF EvictFirst(D) THEN Goto(c1, "evict")
                ELSE Goto(c1, "invoke")

Enter(s) ==
    /\ calls[s].pc = "enter"
    /\ calls' = [calls EXCEPT ![s] = EnterStep(calls[s])]
    /\ UNCHANGED <<redis, expired, Frame>>

\* a lookup without the try/except around backend.get
LookupStep_NoTry(c, fails) ==
    LET key == build_cache_key(c.d, c.a)
        got == IF fails THEN ConvError
               ELSE BackendGet(redis, builld_key(get_backend, key))
        c1 == [Log(c, IF IsError(got) THEN "get.err" ELSE "get")
                  EXCEPT !.key = key, !.cached = got]
    IN  IF IsError(got) THEN Finish(c1, Raised("BackendError"))
        ELSE IF IsHit(got) THEN Finish(c1, Returned(got))
        ELSE Goto(c1, "invoke")

\* cacheable: get_backend, _build_cache_key, `await backend.get(cache_key)`
\* and the hit test; fails says whether the client raised
LookupStep(c, fails) ==
    LET key == build_cache_key(c.d, c.a)
        got == IF fails THEN ConvError
               ELSE BackendGet(redis, builld_key(get_backend, key))
        cached == IF IsError(got) THEN PyNone ELSE got
        c1 == [Log(c, IF IsError(got) THEN "get.err" ELSE "get")
                  EXCEPT !.key = key, !.cached = cached,
                         !.found = EntryAt(redis, builld_key(get_backend, key)),
                         !.lapsed = builld_key(get_backend, key) \in expired]
    IN  IF get_backend = "CacheConfigError" THEN Finish(c, Raised("CacheConfigError"))
        ELSE IF IsHit(cached) THEN Finish(c1, Returned(cached))
        ELSE Goto(c1, "invoke")

Lookup(s, fails) ==
    /\ calls[s].pc = "lookup"
    /\ calls' = [calls EXCEPT ![s] = LookupStep(calls[s], fails)]
    /\ UNCHANGED <<redis, expired, Frame>>

\* `await func(*args, **kwargs)` returns r; seen is the cache as the
\* operation finds it
Invoke(s, r) ==
    /\ calls[s].pc = "invoke"
    /\ calls' = [calls EXCEPT ![s] =
            AfterInvoke([Log(calls[s], "invoke")
                            EXCEPT !.result = r, !.seen = DOMAIN redis])]
    /\ UNCHANGED <<redis, expired, Frame>>

\* a wrapper that catches the operation's error and goes on with None
InvokeRaises_Swallowed(s) ==
    /\ calls[s].pc = "invoke"
    /\ calls' = [calls EXCEPT ![s] =
            AfterInvoke([Log(calls[s], "invoke.err")
                            EXCEPT !.result = PyNone, !.seen = DOMAIN redis])]
    /\ UNCHANGED <<redis, expired, Frame>>

\* `await func(*args, **kwargs)` raises
InvokeRaises(s) ==
    /\ calls[s].pc = "invoke"
    /\ calls' = [calls EXCEPT ![s] =
            Finish([Log(calls[s], "invoke.err") EXCEPT !.seen = DOMAIN redis],
                   Raised("OperationError"))]
    /\ UNCHANGED <<redis, expired, Frame>>

\* cache_put: the condition, evaluated after the operation
CondStep(c) ==
    LET D == Decorator(c.d) IN
    IF call_condition_raises(D.condition, c.a)
    THEN Finish(Log(c, "cond.err"), Raised("PredicateError"))
    ELSE IF ~call_condition(D.condition, c.a)
    THEN Finish(Log(c, "cond"), Returned(c.result))
    ELSE IF D.unless # "None" THEN Goto(Log(c, "cond"), "unless")
    ELSE Goto(Log(c, "cond"), "store")

Cond(s) ==
    /\ calls[s].pc = "cond"
    /\ calls' = [calls EXCEPT ![s] = CondStep(calls[s])]
    /\ UNCHANGED <<redis, expired, Frame>>

\* a wrapper that evaluates unless and stores whatever it answers
UnlessStep_Ignored(c) ==
    IF call_unless_raises(Decorator(c.d).unless, c.result)
    THEN Finish(Log(c, "unless.err"), Raised("PredicateError"))
    ELSE Goto(Log(c, "unless"), "store")

\* cacheable, cache_put: unless(result)
UnlessStep(c) ==
    IF call_unless_raises(Decorator(c.d).unless, c.result)
    THEN Finish(Log(c, "unless.err"), Raised("PredicateError"))
    ELSE IF call_unless(Decorator(c.d).unless, c.result)
    THEN Finish(Log(c, "unless"), Returned(c.result))
    ELSE Goto(Log(c, "unless"), "store")

Unless(s) ==
    /\ calls[s].pc = "unless"
    /\ calls' = [calls EXCEPT ![s] = UnlessStep(calls[s])]
    /\ UNCHANGED <<redis, expired, Frame>>

\* cacheable, cache_put: `await backend.set(cache_key, result, ttl=ttl)`
\* inside try/except; cache_put calls get_backend and builds its key here
StoreKey(c) ==
    IF Decorator(c.d).kind = "cache_put" THEN build_cache_key(c.d, c.a) ELSE c.key

\* how backend.set ends: serialize raises, the client raises, or neither
StoreEvent(c, fails) ==
    IF IsError(serialize(c.result, defaultFormat)) THEN "serialize.err"
    ELSE IF fails THEN "set.err"
    ELSE "set"

\* a store that leaves ttl to the backend's default
StoreRedis_DefaultTtl(c, fails) ==
    IF get_backend # "CacheConfigError" /\ StoreEvent(c, fails) = "set"
    THEN RedisSet(redis, builld_key(get_backend, StoreKey(c)),
                  serialize(c.result, defaultFormat), DemoTtl,
                  [d |-> c.d, a |-> c.a, result |-> c.result])
    ELSE redis

\* a store that sets only absent keys (SET ... NX)
StoreRedis_IfAbsent(c, fails) ==
    IF /\ get_backend # "CacheConfigError" /\ StoreEvent(c, fails) = "set"
       /\ builld_key(get_backend, StoreKey(c)) \notin DOMAIN redis
    THEN RedisSet(redis, builld_key(get_backend, StoreKey(c)),
                  serialize(c.result, defaultFormat), Decorator(c.d).ttl,
                  [d |-> c.d, a |-> c.a, result |-> c.result])
    ELSE redis

StoreRedis(c, fails) ==
    IF get_backend # "CacheConfigError" /\ StoreEvent(c, fails) = "set"
    THEN RedisSet(redis, builld_key(get_backend, StoreKey(c)),
                  serialize(c.result, defaultFormat), Decorator(c.d).ttl,
                  [d |-> c.d, a |-> c.a, result |-> c.result])
    ELSE redis

StoreStep(c, fails) ==
    IF get_backend = "CacheConfigError" THEN Finish(c, Raised("CacheConfigError"))
    ELSE Finish([Log(c, StoreEvent(c, fails))
                    EXCEPT !.key = StoreKey(c),
                           !.found = IF Decorator(c.d).kind = "cache_put"
                                     THEN EntryAt(redis, builld_key(get_backend, StoreKey(c)))
                                     ELSE @],
                Returned(c.result))

Store(s, fails) ==
    /\ calls[s].pc = "store"
    /\ redis' = StoreRedis(calls[s], fails)
    /\ calls' = [calls EXCEPT ![s] = StoreStep(calls[s], fails)]
    /\ expired' = expired \ (DOMAIN redis' \ DOMAIN redis)
    /\ UNCHANGED Frame

\* cache_evict: where the wrapper goes once _evict is over, raised or not
AfterEvict(c) ==
    IF EvictFirst(Decorator(c.d)) THEN Goto(c, "invoke")
    ELSE Finish(c, Returned(c.result))

\* what _evict does first: "clear" (backend.clear), "delete"
\* (backend.delete) or "raise" (get_backend or the ValueError)
EvictPlan(c) ==
    LET D == Decorator(c.d) IN
    IF get_backend = "CacheConfigError" THEN "raise"
    ELSE IF D.all_entries THEN "clear"
    ELSE IF D.namespace = NsNone THEN "raise"
    ELSE "delete"

\* the keys `await self.client.keys(pattern)` answers in clear
EvictKeys(c) == RedisKeys(redis, ClearPattern(get_backend, Decorator(c.d).namespace))

EvictRedis(c, fails) ==
    IF EvictPlan(c) = "delete" /\ ~fails
    THEN RedisDelete(redis, {builld_key(get_backend, build_cache_key(c.d, c.a))})
    ELSE redis

EvictStep(c, fails) ==
    CASE EvictPlan(c) = "raise" -> AfterEvict(Log(c, "evict.err"))
      [] EvictPlan(c) = "delete" ->
            AfterEvict([Log(c, IF fails THEN "delete.err" ELSE "delete")
                           EXCEPT !.key = build_cache_key(c.d, c.a),
                                  !.found = EntryAt(redis,
                                      builld_key(get_backend, build_cache_key(c.d, c.a)))])
      [] EvictPlan(c) = "clear" ->
            IF fails THEN AfterEvict(Log(c, "keys.err"))
            ELSE IF EvictKeys(c) = {} THEN AfterEvict(Log(c, "keys"))
            ELSE Goto([Log(c, "keys") EXCEPT !.keys = EvictKeys(c)], "evictdel")

Evict(s, fails) ==
    /\ calls[s].pc = "evict"
    /\ redis' = EvictRedis(calls[s], fails)
    /\ calls' = [calls EXCEPT ![s] = EvictStep(calls[s], fails)]
    /\ UNCHANGED <<expired, Frame>>

\* backend.clear: `await self.client.delete(*keys)`
EvictDelete(s, fails) ==
    /\ calls[s].pc = "evictdel"
    /\ redis' = IF fails THEN redis ELSE RedisDelete(redis, calls[s].keys)
    /\ calls' = [calls EXCEPT ![s] =
            AfterEvict(Log(calls[s], IF fails THEN "clear.err" ELSE "clear"))]
    /\ UNCHANGED <<expired, Frame>>

\* the task running the wrapper is cancelled at the await it is suspended
\* at: CancelledError is no Exception, so no `except Exception` catches it;
\* sent says whether the command the call waits for had reached the server
Abandon(s, sent) ==
    LET c == calls[s] IN
    /\ c.pc \in {"lookup", "invoke", "cond", "unless", "store", "evict", "evictdel"}
    /\ redis' = CASE sent /\ c.pc = "store" -> StoreRedis(c, FALSE)
                   [] sent /\ c.pc = "evict" -> EvictRedis(c, FALSE)
                   [] sent /\ c.pc = "evictdel" -> RedisDelete(redis, c.keys)
                   [] OTHER -> redis
    /\ calls' = [calls EXCEPT ![s] = Finish(Log(c, "cancel"), Raised("CancelledError"))]
    /\ expired' = expired \ (DOMAIN redis' \ DOMAIN redis)
    /\ UNCHANGED Frame

(***************************************************************************)
(* Specifications                                                          *)
(***************************************************************************)
UserIds == {7, 8}

\* what a wrapped operation may return: a record, a tuple, an object json
\* cannot encode, None
UserRecord == PyDict(<<PyItem(PyStr("name"), PyStr("ann"))>>)
UserTuple == PyTuple(<<PyInt(0)>>)
Opaque == PyInstance("Session")
OtherRecord == PyDict(<<PyItem(PyStr("name"), PyStr("bob"))>>)
Results == {UserRecord, UserTuple, Opaque, PyNone}

NoDecoOp == [name |-> "", err |-> ""]
NoProbe == [stage |-> "none"]

\* the process has started: nothing is initialized, Redis is empty
ColdStart ==
    /\ initialized = FALSE
    /\ backend = BackendNone
    /\ defaultFormat = ModuleDefaultFormat
    /\ redis = <<>>
    /\ expired = {}
    /\ cfgOp = [op |-> "", b |-> "", f |-> "", err |-> ""]
    /\ lastInit = BackendNone
    /\ inits = 0

\* the application module is imported (every decorator has run), the
\* registry is not initialized yet
Init ==
    /\ ColdStart
    /\ calls = [s \in {1} |-> IdleCall]
    /\ wrappers = Operations
    /\ decoOp = NoDecoOp
    /\ probe = NoProbe

\* the three wrappers of the demo on the whole registry interface
Next ==
    \/ \E b \in Backends \cup {NotABackend}, f \in Formats \cup {NoFormat} :
            CacheConfigInit(b, f)
    \/ CacheConfigReset
    \/ \E s \in DOMAIN calls, d \in {"get_user", "refresh_user", "evict_user"} :
            Call(s, d, 7)
    \/ \E s \in DOMAIN calls : Enter(s)
    \/ \E s \in DOMAIN calls : Lookup(s, FALSE)
    \/ \E s \in DOMAIN calls : Invoke(s, UserRecord)
    \/ \E s \in DOMAIN calls : Store(s, FALSE)
    \/ \E s \in DOMAIN calls : Evict(s, FALSE)

Spec == Init /\ [][Next]_vars

\* application startup: CacheConfig.init(RedisCacheBackend(...))
Startup == ~initialized /\ CacheConfigInit("b1", NoFormat)

\* read-through and write-through calls, any result, failing backend
ReadDecorators == {"get_user", "refresh_user", "get_order", "put_order"}

NextCache ==
    \/ Startup
    \/ Tick
    \/ \E s \in DOMAIN calls, d \in ReadDecorators, a \in UserIds : Call(s, d, a)
    \/ \E s \in DOMAIN calls : Enter(s)
    \/ \E s \in DOMAIN calls, fails \in BOOLEAN : Lookup(s, fails)
    \/ \E s \in DOMAIN calls, r \in Results : Invoke(s, r)
    \/ \E s \in DOMAIN calls : InvokeRaises(s)
    \/ \E s \in DOMAIN calls : Cond(s)
    \/ \E s \in DOMAIN calls : Unless(s)
    \/ \E s \in DOMAIN calls, fails \in BOOLEAN : Store(s, fails)

SpecCache == Init /\ [][NextCache]_vars

\* every wrapper with a failing backend and a failing operation
EvictDecorators ==
    {"get_user", "get_vip", "get_order", "refresh_user", "evict_user",
     "evict_all_users", "purge_user", "purge_all_users", "evict_order_if"}

NextEvict ==
    \/ Startup
    \/ Tick
    \/ \E s \in DOMAIN calls, d \in EvictDecorators, a \in UserIds : Call(s, d, a)
    \/ \E s \in DOMAIN calls : Enter(s)
    \/ \E s \in DOMAIN calls, fails \in BOOLEAN : Lookup(s, fails)
    \/ \E s \in DOMAIN calls : Invoke(s, UserRecord)
    \/ \E s \in DOMAIN calls : InvokeRaises(s)
    \/ \E s \in DOMAIN calls : Unless(s)
    \/ \E s \in DOMAIN calls, fails \in BOOLEAN : Store(s, fails)
    \/ \E s \in DOMAIN calls, fails \in BOOLEAN : Evict(s, fails)
    \/ \E s \in DOMAIN calls, fails \in BOOLEAN : EvictDelete(s, fails)

SpecEvict == Init /\ [][NextEvict]_vars

\* the application module being imported: decorators are applied one by
\* one, whether or not the registry is initialized, and the wrappers they
\* returned are called
DecoratedNames ==
    {"get_user", "refresh_user", "evict_user", "evict_no_ns"} \cup SyncFunctions

InitDecorate ==
    /\ ColdStart
    /\ calls = [s \in {1} |-> IdleCall]
    /\ wrappers = {}
    /\ decoOp = NoDecoOp
    /\ probe = NoProbe

NextDecorate ==
    \/ \E name \in DecoratedNames : Decorate(name)
    \/ Startup
    \/ CacheConfigReset
    \/ \E s \in DOMAIN calls, d \in DecoratedNames : Call(s, d, 7)
    \/ \E s \in DOMAIN calls : Enter(s)
    \/ \E s \in DOMAIN calls : Lookup(s, FALSE)
    \/ \E s \in DOMAIN calls : Invoke(s, UserRecord)
    \/ \E s \in DOMAIN calls : Store(s, FALSE)
    \/ \E s \in DOMAIN calls : Evict(s, FALSE)

SpecDecorate == InitDecorate /\ [][NextDecorate]_vars

\* key derivation on its own: async def search(user_id, tag="t0",
\* request=None) behind three configurations of cacheable, called twice
SearchSig ==
    <<[name |-> "user_id", default |-> Absent],
      [name |-> "tag", default |-> PyStr("t0")],
      [name |-> "request", default |-> PyNone]>>

SearchDeco == Deco("cacheable", "app.search", <<>>, <<"search">>, KeyNone, DemoTtl)
SearchDecos ==
    {SearchDeco,
     [SearchDeco EXCEPT !.excluded_params = [supplied |-> TRUE, names |-> {"tag"}]],
     [SearchDeco EXCEPT !.excluded_params = [supplied |-> TRUE, names |-> {}]],
     [SearchDeco EXCEPT !.key_builder = "tenant"]}

\* argument values of every kind _make_json_safe names
KeyValues ==
    {PyInt(1), PyInt(2), PyStr("1"), PyBool("True"), PyDecimal("1"),
     PyUuid("u-1"), PyDatetime("2024-01-01T00:00:00"), PyBytes("1"),
     PyEnum("Status", PyInt(1)),
     PyList(<<PyInt(1)>>), PyTuple(<<PyInt(1)>>),
     PyDict(<<PyItem(PyStr("a"), PyInt(1)), PyItem(PyStr("b"), PyInt(2))>>),
     PyDict(<<PyItem(PyStr("b"), PyInt(2)), PyItem(PyStr("a"), PyInt(1))>>),
     PyDict(<<PyItem(PyInt(1), PyStr("x"))>>),
     PyDict(<<PyItem(PyStr("1"), PyStr("x"))>>),
     PyDict(<<PyItem(PyInt(1), PyStr("x")), PyItem(PyStr("1"), PyStr("y"))>>),
     PyDict(<<PyItem(PyStr("1"), PyStr("y")), PyItem(PyInt(1), PyStr("x"))>>)}
Tags == {PyStr("t0"), PyStr("t1")}
Requests == {Absent, PyInstance("Request#1"), PyInstance("Request#2")}

Kw(name, v) == PyItem(PyStr(name), v)
KwRequest(r) == IF r = Absent THEN <<>> ELSE <<Kw("request", r)>>

\* search(u, t), search(u) with the default tag: the first call
FirstCalls ==
    {[args |-> <<u, PyStr("t0")>>, kwargs |-> <<>>] : u \in KeyValues}
    \cup {[args |-> <<u>>, kwargs |-> <<>>] : u \in KeyValues}

\* the ways to pass user_id = u, tag = t, request = r
CallForms(u, t, r) ==
    {[args |-> <<u, t>>, kwargs |-> KwRequest(r)],
     [args |-> <<u>>, kwargs |-> <<Kw("tag", t)>> \o KwRequest(r)],
     [args |-> <<>>, kwargs |-> <<Kw("user_id", u), Kw("tag", t)>> \o KwRequest(r)],
     [args |-> <<>>, kwargs |-> KwRequest(r) \o <<Kw("tag", t), Kw("user_id", u)>>]}
    \cup (IF t = PyStr("t0") THEN {[args |-> <<u>>, kwargs |-> KwRequest(r)]} ELSE {})
SecondCalls ==
    UNION {CallForms(u, t, r) : u \in KeyValues, t \in Tags, r \in Requests}

InitKeys ==
    /\ ColdStart
    /\ calls = [s \in {1} |-> IdleCall]
    /\ wrappers = Operations
    /\ decoOp = NoDecoOp
    /\ probe \in [stage : {"args"}, D : SearchDecos, c1 : FirstCalls, c2 : SecondCalls]

\* _filtered_kwargs_for_key: sig.bind_partial and apply_defaults for both
\* calls
ProbeBind ==
    /\ probe.stage = "args"
    /\ probe' = [stage |-> "bound", D |-> probe.D, c1 |-> probe.c1, c2 |-> probe.c2,
                 b1 |-> Bind(SearchSig, probe.c1.args, probe.c1.kwargs),
                 b2 |-> Bind(SearchSig, probe.c2.args, probe.c2.kwargs)]
    /\ UNCHANGED <<initialized, backend, defaultFormat, redis, calls, expired, cfgOp,
                   lastInit, inits, wrappers, decoOp>>

\* the rest of _build_cache_key for both calls; seen is the mapping that is
\* canonicalized and handed to key_builder.build
ProbeKey ==
    /\ probe.stage = "bound"
    /\ probe' = [stage |-> "keyed", D |-> probe.D, c1 |-> probe.c1, c2 |-> probe.c2,
                 b1 |-> probe.b1, b2 |-> probe.b2,
                 seen1 |-> filtered_kwargs_for_key(probe.b1,
                                Excluded(probe.D.excluded_params)),
                 seen2 |-> filtered_kwargs_for_key(probe.b2,
                                Excluded(probe.D.excluded_params)),
                 k1 |-> BuildCacheKey(probe.D, probe.b1),
                 k2 |-> BuildCacheKey(probe.D, probe.b2)]
    /\ UNCHANGED <<initialized, backend, defaultFormat, redis, calls, expired, cfgOp,
                   lastInit, inits, wrappers, decoOp>>

NextKeys ==
    \/ ProbeBind
    \/ ProbeKey

SpecKeys == InitKeys /\ [][NextKeys]_vars

\* the operations keyed by a custom strategy, one that answers and one that
\* raises, next to operations with the default composition (get_plain with
\* an explicit key, get_vip without)
NextStrategy ==
    \/ Startup
    \/ \E s \in DOMAIN calls, d \in StrategyDecorators \cup {"get_vip"}, a \in UserIds :
            Call(s, d, a)
    \/ \E s \in DOMAIN calls : Enter(s)
    \/ \E s \in DOMAIN calls : Lookup(s, FALSE)
    \/ \E s \in DOMAIN calls : Invoke(s, UserRecord)
    \/ \E s \in DOMAIN calls : InvokeRaises(s)
    \/ \E s \in DOMAIN calls : Store(s, FALSE)
    \/ \E s \in DOMAIN calls : Evict(s, FALSE)

SpecStrategy == Init /\ [][NextStrategy]_vars

\* the serializer on its own: a value of the supported kinds is encoded
\* and decoded in one of the registered formats
CodecValues ==
    {PyNone, PyInt(0), PyStr("ann"), PyBool("True"),
     PyList(<<>>), PyList(<<PyInt(0), PyStr("a")>>),
     PyTuple(<<PyInt(0)>>),
     PyList(<<PyTuple(<<PyInt(0)>>)>>),
     PyDict(<<>>),
     PyDict(<<PyItem(PyStr("name"), PyStr("ann"))>>),
     PyDict(<<PyItem(PyInt(1), PyStr("ann"))>>),
     PyDict(<<PyItem(PyStr("at"), PyDatetime("2024-01-01T00:00:00"))>>),
     PyDict(<<PyItem(PyStr("ids"), PyList(<<PyUuid("u-1")>>))>>),
     PyDatetime("2024-01-01T00:00:00"), PyUuid("u-1"), PyDecimal("1.50"),
     PyBytes("raw"), PyEnum("Status", PyInt(1)), PyEnum("Color", PyStr("red")),
     PySet(<<PyInt(1)>>),
     PyList(<<PyDecimal("1.50"), PyBytes("raw")>>),
     PyList(<<PyList(<<PyDict(<<PyItem(PyStr("k"), PyNone)>>)>>)>>)}

InitCodec ==
    /\ ColdStart
    /\ calls = [s \in {1} |-> IdleCall]
    /\ wrappers = Operations
    /\ decoOp = NoDecoOp
    /\ probe \in [stage : {"value"}, v : CodecValues, fmt : Formats]

\* serialize(v, fmt)
ProbeEncode ==
    /\ probe.stage = "value"
    /\ probe' = [stage |-> "encoded", v |-> probe.v, fmt |-> probe.fmt,
                 raw |-> serialize(probe.v, probe.fmt)]
    /\ UNCHANGED <<initialized, backend, defaultFormat, redis, calls, expired, cfgOp,
                   lastInit, inits, wrappers, decoOp>>

\* deserialize(raw, fmt)
ProbeDecode ==
    /\ probe.stage = "encoded"
    /\ ~IsError(probe.raw)
    /\ probe' = [stage |-> "decoded", v |-> probe.v, fmt |-> probe.fmt,
                 raw |-> probe.raw, back |-> deserialize(probe.raw, probe.fmt)]
    /\ UNCHANGED <<initialized, backend, defaultFormat, redis, calls, expired, cfgOp,
                   lastInit, inits, wrappers, decoOp>>

NextCodec ==
    \/ ProbeEncode
    \/ ProbeDecode

SpecCodec == InitCodec /\ [][NextCodec]_vars

\* the demo's three operations on one key: get_user, refresh_user and
\* evict_user called one after the other, no expiry and no failure
SharingDecorators == {"get_user", "refresh_user", "evict_user"}

NextShare ==
    \/ Startup
    \/ \E s \in DOMAIN calls, d \in SharingDecorators, a \in UserIds : CallNext(s, d, a)
    \/ \E s \in DOMAIN calls : Enter(s)
    \/ \E s \in DOMAIN calls : Lookup(s, FALSE)
    \/ \E s \in DOMAIN calls, r \in {UserRecord, OtherRecord} : Invoke(s, r)
    \/ \E s \in DOMAIN calls : Store(s, FALSE)
    \/ \E s \in DOMAIN calls : Evict(s, FALSE)

SpecShare == Init /\ [][NextShare]_vars

\* two requests for get_user(7) in flight at once
InitRace ==
    /\ ColdStart
    /\ calls = [s \in {1, 2} |-> IdleCall]
    /\ wrappers = Operations
    /\ decoOp = NoDecoOp
    /\ probe = NoProbe

NextRace ==
    \/ Startup
    \/ \E s \in DOMAIN calls : Call(s, "get_user", 7)
    \/ \E s \in DOMAIN calls : Enter(s)
    \/ \E s \in DOMAIN calls : Lookup(s, FALSE)
    \/ \E s \in DOMAIN calls, r \in {UserRecord, OtherRecord} : Invoke(s, r)
    \/ \E s \in DOMAIN calls : Store(s, FALSE)

SpecRace == InitRace /\ [][NextRace]_vars

\* the operations on items with every answer of their predicates: true for
\* user_id 7, false for 8, KeyError for 9; unless true for an empty list,
\* TypeError for None
NextGuards ==
    \/ Startup
    \/ \E s \in DOMAIN calls, d \in GuardedDecorators, a \in UserIds \cup {9} :
            Call(s, d, a)
    \/ \E s \in DOMAIN calls : Enter(s)
    \/ \E s \in DOMAIN calls, fails \in BOOLEAN : Lookup(s, fails)
    \/ \E s \in DOMAIN calls, r \in {UserRecord, PyList(<<>>), PyNone} : Invoke(s, r)
    \/ \E s \in DOMAIN calls : InvokeRaises(s)
    \/ \E s \in DOMAIN calls : Cond(s)
    \/ \E s \in DOMAIN calls : Unless(s)
    \/ \E s \in DOMAIN calls, fails \in BOOLEAN : Store(s, fails)
    \/ \E s \in DOMAIN calls, fails \in BOOLEAN : Evict(s, fails)
    \/ \E s \in DOMAIN calls, fails \in BOOLEAN : EvictDelete(s, fails)

SpecGuards == Init /\ [][NextGuards]_vars

\* the registry next to running calls: init and reset, set_default_format,
\* and wrapped calls that complete, fail or are cancelled
NextRegistry ==
    \/ \E b \in Backends \cup {NotABackend}, f \in {"pickle", NoFormat} :
            CacheConfigInit(b, f)
    \/ CacheConfigReset
    \/ \E f \in {"json", "msgpack"} : SetDefaultFormat(f)
    \/ \E s \in DOMAIN calls, d \in {"get_user", "refresh_user", "evict_all_users"} :
            Call(s, d, 7)
    \/ \E s \in DOMAIN calls : Enter(s)
    \/ \E s \in DOMAIN calls, fails \in BOOLEAN : Lookup(s, fails)
    \/ \E s \in DOMAIN calls : Invoke(s, UserRecord)
    \/ \E s \in DOMAIN calls : InvokeRaises(s)
    \/ \E s \in DOMAIN calls, fails \in BOOLEAN : Store(s, fails)
    \/ \E s \in DOMAIN calls, fails \in BOOLEAN : Evict(s, fails)
    \/ \E s \in DOMAIN calls, fails \in BOOLEAN : EvictDelete(s, fails)
    \/ \E s \in DOMAIN calls, sent \in BOOLEAN : Abandon(s, sent)

SpecRegistry == Init /\ [][NextRegistry]_vars

\* results that are false in a condition without being None
FalsyResults == {PyInt(0), PyBool("False"), PyStr(""), PyList(<<>>), PyDict(<<>>)}

\* get_user and refresh_user with falsy results, None and a record, on a
\* backend that may fail and entries that expire
NextHit ==
    \/ Startup
    \/ Tick
    \/ \E s \in DOMAIN calls, d \in {"get_user", "refresh_user"} : Call(s, d, 7)
    \/ \E s \in DOMAIN calls : Enter(s)
    \/ \E s \in DOMAIN calls, fails \in BOOLEAN : Lookup(s, fails)
    \/ \E s \in DOMAIN calls, r \in FalsyResults \cup {PyNone, UserRecord} : Invoke(s, r)
    \/ \E s \in DOMAIN calls : InvokeRaises(s)
    \/ \E s \in DOMAIN calls, fails \in BOOLEAN : Store(s, fails)

SpecHit == Init /\ [][NextHit]_vars

(***************************************************************************)
(* Properties                                                              *)
(***************************************************************************)
HasEv(c, ev) == \E i \in 1..Len(c.trace) : c.trace[i] = ev
CountEv(c, evs) == Cardinality({i \in 1..Len(c.trace) : c.trace[i] \in evs})
LastEv(c) == IF c.trace = <<>> THEN "" ELSE c.trace[Len(c.trace)]
Kind(c) == IF c.d = "" THEN "" ELSE Decorator(c.d).kind
\* the step is one of the wrapper in slot s
Steps(s) == calls'[s] # calls[s]

\* C8: CacheConfig.init raises CacheConfigError exactly when the registry is
\* already initialized or the backend is no BaseCacheBackend; a failed init
\* leaves _backend, _initialized and the default format as they were; a
\* successful one installs the backend, and there is at most one successful
\* init between two resets.
C8_InitSingleAssignment ==
    [][/\ inits' <= 1
       /\ (cfgOp'.op = "init" /\ (cfgOp' # cfgOp \/ initialized' # initialized)) =>
            /\ (cfgOp'.err = "CacheConfigError") <=>
                    (initialized \/ cfgOp'.b \notin Backends)
            /\ cfgOp'.err \in {"", "CacheConfigError"}
            /\ cfgOp'.err # "" =>
                    UNCHANGED <<backend, initialized, defaultFormat>>
            /\ cfgOp'.err = "" =>
                    /\ initialized' /\ backend' = cfgOp'.b
                    /\ defaultFormat' =
                            IF cfgOp'.f = NoFormat THEN defaultFormat ELSE cfgOp'.f
      ]_vars

\* a re-init with a valid backend and another format has just failed
C8_Witness ==
    /\ initialized /\ cfgOp.op = "init" /\ cfgOp.err = "CacheConfigError"
    /\ cfgOp.b \in Backends /\ cfgOp.b # backend
    /\ cfgOp.f # NoFormat /\ cfgOp.f # defaultFormat

\* C9: get_backend() succeeds exactly when is_initialized() holds, and then
\* returns the backend of the most recent successful init; after reset the
\* registry is uninitialized, get_backend raises, and init with any backend
\* would succeed.
C9_RegistryLifecycle ==
    /\ (get_backend # "CacheConfigError") <=> is_initialized
    /\ is_initialized => get_backend = lastInit /\ lastInit \in Backends
    /\ cfgOp.op = "reset" =>
            /\ ~is_initialized
            /\ get_backend = "CacheConfigError"
            /\ \A b \in Backends : InitError(b) = ""

\* initialized again, with b2, after entries were stored through b1
C9_Witness ==
    /\ is_initialized /\ get_backend = "b2" /\ cfgOp.op = "init" /\ cfgOp.err = ""
    /\ \E k \in DOMAIN redis : k[1] = key_prefix("b1")

\* C10: a wrapper entered while the registry is uninitialized raises to the
\* caller at once: no predicate, no backend operation, no invocation, and
\* the cache is untouched.
C10_RequiresInit ==
    [][\A s \in DOMAIN calls :
        (Steps(s) /\ calls[s].pc = "enter" /\ ~is_initialized) =>
            /\ calls'[s].pc = "done"
            /\ calls'[s].outcome = Raised("CacheNotInitializedError")
            /\ calls'[s].trace = <<>>
            /\ redis' = redis
      ]_vars

\* a cache_evict call was refused after a reset, with entries in the cache
C10_Witness ==
    \E s \in DOMAIN calls :
        /\ calls[s].pc = "done" /\ Kind(calls[s]) = "cache_evict"
        /\ calls[s].outcome = Raised("CacheNotInitializedError")
        /\ ~is_initialized /\ DOMAIN redis # {}

InvokeEvents == {"invoke", "invoke.err"}
StoreEvents == {"set", "set.err", "serialize.err"}
EvictEvents == {"delete", "delete.err", "keys", "keys.err", "clear", "clear.err",
                "evict.err"}
FaultEvents == {"get.err", "set.err", "serialize.err", "delete.err", "keys.err",
                "clear.err"}
\* the redis key of the call in slot s
RedisKeyOf(c) == builld_key(get_backend, build_cache_key(c.d, c.a))
\* the entry a store of c writes
StoredBy(c) ==
    Entry(serialize(c.result, defaultFormat), Decorator(c.d).ttl,
          [d |-> c.d, a |-> c.a, result |-> c.result])
\* the finished cacheable call found the entry an earlier call of the same
\* operation with the same arguments had stored
RepeatedCall(c) ==
    /\ c.pc = "done" /\ Kind(c) = "cacheable" /\ HasEv(c, "get")
    /\ c.found # NoEntry /\ c.found.by.d = c.d /\ c.found.by.a = c.a

\* the statement of C1 as claimed, for every result the operation returns:
\* the call that follows a storing call with the same arguments returns the
\* stored result without invoking the operation.
C1_EveryResult ==
    \A s \in DOMAIN calls :
        RepeatedCall(calls[s]) =>
            /\ CountEv(calls[s], InvokeEvents) = 0
            /\ calls[s].outcome =
                    Returned(deserialize(calls[s].found.data, defaultFormat))

\* C1 (amended): a cacheable call that misses on a cold key invokes the
\* operation exactly once and, when the result serializes and the backend
\* accepts the set, leaves it under the derived key; the next call with the
\* same arguments, when the stored result is not None, returns the decoded
\* entry and does not invoke the operation.
C1_ReadThrough ==
    /\ [](\A s \in DOMAIN calls :
            LET c == calls[s] IN
            /\ (RepeatedCall(c) /\ c.found.by.result # PyNone) =>
                    /\ CountEv(c, InvokeEvents \cup StoreEvents) = 0
                    /\ c.outcome = Returned(deserialize(c.found.data, defaultFormat))
                    /\ (c.found.by.result = UserRecord => c.outcome.val = UserRecord)
            /\ (/\ c.pc = "done" /\ Kind(c) = "cacheable" /\ HasEv(c, "get")
                /\ c.found = NoEntry /\ c.outcome.st = "ret") =>
                    /\ CountEv(c, InvokeEvents) = 1
                    /\ c.outcome = Returned(c.result))
    /\ [][\A s \in DOMAIN calls :
            (/\ Steps(s) /\ Kind(calls[s]) = "cacheable"
             /\ calls[s].pc = "store" /\ LastEv(calls'[s]) = "set") =>
                /\ RedisKeyOf(calls[s]) = builld_key(get_backend, calls[s].key)
                /\ redis' = [k \in DOMAIN redis \cup {RedisKeyOf(calls[s])} |->
                                IF k = RedisKeyOf(calls[s]) THEN StoredBy(calls[s])
                                ELSE redis[k]]
       ]_vars

\* get_user(7) answered from the entry the previous get_user(7) stored
C1_Witness ==
    \E s \in DOMAIN calls :
        /\ RepeatedCall(calls[s]) /\ calls[s].d = "get_user" /\ calls[s].a = 7
        /\ calls[s].found.by.result = UserRecord
        /\ calls[s].trace = <<"get">>
        /\ calls[s].outcome = Returned(UserRecord)

C4_BackendFailureResilience ==
    /\ [](\A s \in DOMAIN calls :
            LET c == calls[s] IN
            /\ c.outcome.err \in {"", "OperationError", "CacheNotInitializedError"}
            /\ HasEv(c, "get.err") => c.cached = PyNone /\ c.pc \in {"invoke", "unless", "store", "done"}
            /\ (c.pc = "done" /\ CountEv(c, FaultEvents) > 0) =>
                    /\ CountEv(c, InvokeEvents) = 1
                    /\ IF HasEv(c, "invoke.err")
                       THEN c.outcome = Raised("OperationError")
                       ELSE c.outcome = Returned(c.result)
            /\ (c.pc = "done" /\ HasEv(c, "get.err") /\ c.outcome.st = "ret") =>
                    LastEv(c) \in StoreEvents \cup {"unless"})
    /\ [][\A s \in DOMAIN calls :
            (Steps(s) /\ Len(calls'[s].trace) > Len(calls[s].trace)
             /\ LastEv(calls'[s]) \in FaultEvents) => redis' = redis
       ]_vars

\* get_user whose get and set both failed still returned the result
C4_Witness ==
    \E s \in DOMAIN calls :
        /\ calls[s].pc = "done" /\ calls[s].d = "get_user"
        /\ calls[s].trace = <<"get.err", "invoke", "set.err">>
        /\ calls[s].found # NoEntry
        /\ calls[s].outcome = Returned(UserRecord)

\* C5: when the operation raises inside cacheable or cache_put the caller
\* gets that error, backend.set is never called, and no step of such a call
\* changes the cache.
C5_OperationFailurePropagates ==
    /\ [](\A s \in DOMAIN calls :
            LET c == calls[s] IN
            (Kind(c) \in {"cacheable", "cache_put"} /\ HasEv(c, "invoke.err")) =>
                /\ c.pc = "done"
                /\ c.outcome = Raised("OperationError")
                /\ LastEv(c) = "invoke.err"
                /\ CountEv(c, StoreEvents) = 0)
    /\ [][\A s \in DOMAIN calls :
            (/\ Steps(s) /\ Kind(calls'[s]) \in {"cacheable", "cache_put"}
             /\ calls'[s].pc # "done" \/ ~HasEv(calls'[s], "set")) =>
                redis' = redis
       ]_vars

\* refresh_user raised while the cache held an entry under its key
C5_Witness ==
    \E s \in DOMAIN calls :
        /\ calls[s].pc = "done" /\ calls[s].d = "refresh_user"
        /\ calls[s].outcome = Raised("OperationError")
        /\ RedisKeyOf(calls[s]) \in DOMAIN redis

\* the keys a cache_evict call aims at
EvictTargets(c, ks) ==
    IF Decorator(c.d).all_entries
    THEN KeysMatching(ks, ClearPattern(get_backend, Decorator(c.d).namespace))
    ELSE ks \cap {RedisKeyOf(c)}
\* the eviction of c went through: the delete, or the clear (no key to
\* delete, or the keys deleted)
Evicted(c) ==
    \/ HasEv(c, "delete")
    \/ HasEv(c, "clear")
    \/ HasEv(c, "keys") /\ c.keys = {}
FirstIndex(c, evs) ==
    IF \E i \in 1..Len(c.trace) : c.trace[i] \in evs
    THEN CHOOSE i \in 1..Len(c.trace) :
            c.trace[i] \in evs /\ \A j \in 1..(i - 1) : c.trace[j] \notin evs
    ELSE Len(c.trace) + 1

\* C6: with before_invocation the eviction is over before the operation
\* starts, the operation finds no targeted entry, and the entries stay
\* evicted when the operation raises; without it no delete or clear is
\* issued before the operation has returned, and none if it raises.
C6_EvictOrdering ==
    \A s \in DOMAIN calls :
        LET c == calls[s] D == Decorator(c.d) IN
        (/\ Kind(c) = "cache_evict" /\ ~c.bypass /\ c.pc # "enter"
         /\ c.outcome # Raised("CacheNotInitializedError")) =>
            IF D.before_invocation
            THEN /\ c.pc \in {"invoke", "done"} => CountEv(c, EvictEvents) > 0
                 /\ CountEv(c, InvokeEvents) > 0 =>
                        /\ FirstIndex(c, EvictEvents) < FirstIndex(c, InvokeEvents)
                        /\ LastEv(c) \in InvokeEvents
                        /\ Evicted(c) => EvictTargets(c, c.seen) = {}
                 /\ (c.pc \in {"invoke", "done"} /\ Evicted(c)) =>
                        EvictTargets(c, DOMAIN redis) = {}
            ELSE /\ CountEv(c, EvictEvents) > 0 =>
                        /\ HasEv(c, "invoke")
                        /\ FirstIndex(c, InvokeEvents) < FirstIndex(c, EvictEvents)
                 /\ HasEv(c, "invoke.err") =>
                        /\ CountEv(c, EvictEvents) = 0
                        /\ c.outcome = Raised("OperationError")
                 /\ c.pc \in {"evict", "evictdel"} => HasEv(c, "invoke")

\* purge_user deleted a live entry, then its operation raised
C6_Witness ==
    \E s \in DOMAIN calls :
        /\ calls[s].pc = "done" /\ calls[s].d = "purge_user"
        /\ calls[s].found # NoEntry
        /\ calls[s].trace = <<"delete", "invoke.err">>
        /\ RedisKeyOf(calls[s]) \notin DOMAIN redis

\* the namespace an entry was stored under
StoredUnder(e) == Decorator(e.by.d).namespace

\* C7: a single-key cache_evict removes only the entry of its derived key; a
\* namespace-wide cache_evict of namespace N removes every entry stored
\* under N and no entry stored under another namespace.
C7_EvictionScoping ==
    [][\A s \in DOMAIN calls :
        LET c == calls[s] D == Decorator(c.d) IN
        (Steps(s) /\ Kind(c) = "cache_evict") =>
            /\ \A k \in DOMAIN redis \ DOMAIN redis' :
                    IF D.all_entries THEN StoredUnder(redis[k]) = D.namespace
                    ELSE k = RedisKeyOf(c)
            /\ LastEv(calls'[s]) = "clear" /\ Len(calls'[s].trace) > Len(c.trace) =>
                    \A k \in DOMAIN redis' : StoredUnder(redis'[k]) # D.namespace
      ]_vars

\* C11: decorating a function that is not a coroutine function raises
\* TypeError and returns no wrapper, whether or not the registry is
\* initialized, so no call of such a function ever enters the cache layer;
\* decorating a coroutine function returns its wrapper.
C11_SyncRejected ==
    /\ [](/\ wrappers \cap SyncFunctions = {}
          /\ \A s \in DOMAIN calls : calls[s].d \notin SyncFunctions
          /\ decoOp.name # "" =>
                ((decoOp.err = "TypeError") <=> (decoOp.name \in SyncFunctions))
          /\ decoOp.err \in {"", "TypeError"})
    /\ [][decoOp' # decoOp =>
            /\ UNCHANGED <<initialized, backend, calls, redis>>
            /\ decoOp'.err # "" => wrappers' = wrappers
            /\ decoOp'.err = "" => wrappers' = wrappers \cup {decoOp'.name}
       ]_vars

\* sync_get was rejected on an initialized registry that serves get_user
C11_Witness ==
    /\ initialized
    /\ decoOp = [name |-> "sync_get", err |-> "TypeError"]
    /\ "get_user" \in wrappers
    /\ "sync_get" \notin wrappers

\* C12: applying cache_evict with all_entries=False and no namespace
\* raises at decoration, so no wrapper of such an eviction exists.
C12_FatalAtSetup ==
    \A name \in wrappers :
        LET D == Decorator(name) IN
        ~(D.kind = "cache_evict" /\ ~D.all_entries /\ D.namespace = NsNone)

\* two mappings of bound arguments are equal as Python dicts
BoundEq(b1, b2) ==
    /\ Len(b1) = Len(b2)
    /\ \A i \in 1..Len(b1) :
            /\ b1[i].items[1] = b2[i].items[1]
            /\ PyEq(b1[i].items[2], b2[i].items[2])
\* no mapping-valued argument has two keys with the same str()
PlainKeys(b) ==
    \A i \in 1..Len(b) :
        b[i].items[2].t = "dict" =>
            \A j, k \in 1..Len(b[i].items[2].items) :
                j # k => b[i].items[2].items[j].items[1].s
                            # b[i].items[2].items[k].items[1].s
\* both keys of the probe are derived, by the default composition
KeyedDefault == probe.stage = "keyed" /\ probe.D.key_builder = "None"

C14_KeyDistinctness ==
    (KeyedDefault /\ ~BoundEq(probe.seen1, probe.seen2)) => probe.k1 # probe.k2

\* the bound arguments differ at most at the names in names
DifferOnlyAt(b1, b2, names) ==
    /\ Len(b1) = Len(b2)
    /\ \A i \in 1..Len(b1) :
            /\ b1[i].items[1] = b2[i].items[1]
            /\ b1[i].items[1].s \notin names => b1[i].items[2] = b2[i].items[2]

\* C15: the mapping that is canonicalized and handed to a custom strategy
\* holds no argument whose name is excluded, and two calls that differ only
\* in excluded arguments get the same key, with and without a custom
\* strategy.
C15_Exclusion ==
    probe.stage = "keyed" =>
        LET names == Excluded(probe.D.excluded_params) IN
        /\ \A i \in 1..Len(probe.seen1) : probe.seen1[i].items[1].s \notin names
        /\ \A i \in 1..Len(probe.seen2) : probe.seen2[i].items[1].s \notin names
        /\ DifferOnlyAt(probe.b1, probe.b2, names) => probe.k1 = probe.k2

\* two calls of the strategy-keyed search that differ in request only
C15_Witness ==
    /\ probe.stage = "keyed" /\ probe.D.key_builder = "tenant"
    /\ probe.b1 # probe.b2
    /\ DifferOnlyAt(probe.b1, probe.b2, {"request"})
    /\ probe.b2[3].items[2] = PyInstance("Request#2")
    /\ probe.k1 = probe.k2

\* what key_builder.build is given for the call c
StrategyInput(c) ==
    filtered_kwargs_for_key(BoundArguments(c.d, c.a),
                            Excluded(Decorator(c.d).excluded_params))
\* the default composition namespace:identifier:hash for the call c
DefaultKeyOf(c) ==
    Decorator(c.d).namespace
        \o <<IF Decorator(c.d).key = KeyNone THEN Decorator(c.d).func
             ELSE Decorator(c.d).key,
             Sha256Hex(CanonJson(make_json_safe(PyDict(StrategyInput(c)))))>>
\* the key C16 requires for the call c
StrategyKeyOf(c) ==
    IF Decorator(c.d).key_builder = "tenant"
    THEN KeyBuilderBuild("tenant", Decorator(c.d).func, StrategyInput(c))
    ELSE DefaultKeyOf(c)

\* C16: with a key_builder whose build returns, the returned value is the
\* key of the call's get, set and delete; with one whose build raises the
\* key is namespace:identifier:hash, the same as without a strategy, and the
\* call ends as it would without one (no error of the strategy reaches the
\* caller).
C16_CustomStrategy ==
    /\ [](\A s \in DOMAIN calls :
            LET c == calls[s] IN
            c.d \in StrategyDecorators =>
                /\ c.outcome.err \in {"", "OperationError", "CacheNotInitializedError"}
                /\ CountEv(c, {"get", "set", "delete"}) > 0 =>
                        /\ c.key = StrategyKeyOf(c)
                        /\ Decorator(c.d).key_builder = "tenant" => c.key[1] = "tenant"
                /\ c.d = "get_audit" =>
                        build_cache_key(c.d, c.a) = build_cache_key("get_plain", c.a)
                /\ (c.pc = "done" /\ LastEv(c) = "get") =>
                        /\ c.found = EntryAt(redis, builld_key(get_backend, StrategyKeyOf(c)))
                        /\ c.outcome = Returned(c.found.by.result))
    /\ [][\A s \in DOMAIN calls :
            (Steps(s) /\ calls'[s].d \in StrategyDecorators
             /\ calls'[s].d = calls[s].d) =>
                LET rk == builld_key(get_backend, StrategyKeyOf(calls[s])) IN
                /\ DOMAIN redis' \ DOMAIN redis \subseteq {rk}
                /\ DOMAIN redis \ DOMAIN redis' \subseteq {rk}
                /\ \A k \in DOMAIN redis \cap DOMAIN redis' : k # rk => redis'[k] = redis[k]
                /\ LastEv(calls'[s]) = "set" /\ calls[s].pc = "store" =>
                        rk \in DOMAIN redis' /\ redis'[rk].by.d = calls[s].d
                /\ LastEv(calls'[s]) = "delete" /\ calls[s].pc = "evict" =>
                        rk \notin DOMAIN redis'
       ]_vars

\* get_audit, whose strategy raises, is answered from the entry get_plain
\* stored under the default key, while an entry keyed by the tenant
\* strategy is in the cache
C16_Witness ==
    \E s \in DOMAIN calls :
        /\ calls[s].pc = "done" /\ calls[s].d = "get_audit"
        /\ calls[s].trace = <<"get">>
        /\ calls[s].found.by.d = "get_plain"
        /\ calls[s].outcome = Returned(UserRecord)
        /\ \E k \in DOMAIN redis : k[2] = "tenant" /\ redis[k].by.d = "put_report"

\* C17: in every registered format, every value built from primitives,
\* lists, tuples, mappings and the rich types encodes, and decoding the
\* bytes gives back an equal value.
C17_RoundTrip ==
    /\ probe.stage = "encoded" => ~IsError(probe.raw)
    /\ probe.stage = "decoded" => PyEq(probe.back, probe.v)

\* C18: when serialize raises in the store step of cacheable or cache_put,
\* the call ends with that error raised to the caller instead of returning
\* the result.
C18_SerializationReported ==
    \A s \in DOMAIN calls :
        (calls[s].pc = "done" /\ HasEv(calls[s], "serialize.err")) =>
            /\ calls[s].outcome.st = "raise"
            /\ calls[s].outcome.err \notin {"", "OperationError"}

CanStep(s) ==
    \/ ENABLED Enter(s)
    \/ ENABLED Lookup(s, FALSE)
    \/ ENABLED Invoke(s, UserRecord)
    \/ ENABLED Store(s, FALSE)

\* C20: concurrent cacheable calls do not coordinate: a call that has
\* started can always take its next step whatever the other call is doing,
\* a lookup that finds no entry goes on to invoke although another call for
\* the same key is in flight, and every set replaces the entry of the key
\* with the setter's result (last write wins).
C20_NoCoordination ==
    /\ [](\A s \in DOMAIN calls :
            /\ calls[s].pc \notin {"idle", "done"} => CanStep(s)
            /\ (calls[s].pc = "invoke" /\ calls[s].found = NoEntry) =>
                    calls[s].trace = <<"get">>)
    /\ [][\A s \in DOMAIN calls :
            (Steps(s) /\ calls[s].pc = "store" /\ LastEv(calls'[s]) = "set") =>
                /\ redis'[RedisKeyOf(calls[s])] = StoredBy(calls[s])
                /\ \A o \in DOMAIN calls \ {s} : calls'[o] = calls[o]
       ]_vars

\* both calls missed, both invoked, both set; the entry is the one of the
\* call in slot 1, which set after the call in slot 2
C20_Witness ==
    /\ \A s \in DOMAIN calls :
            /\ calls[s].pc = "done" /\ calls[s].found = NoEntry
            /\ calls[s].trace = <<"get", "invoke", "set">>
    /\ calls[1].result = UserRecord /\ calls[2].result = OtherRecord
    /\ redis[RedisKeyOf(calls[1])].by.result = UserRecord

\* the events of a backend call: get, set (serialize included), delete,
\* clear (keys, then delete) and an eviction that raised before its call
BackendEvents == {"get", "get.err"} \cup StoreEvents \cup EvictEvents
\* the wrapper of c was entered on an initialized registry with a condition
\* that answers false: KNOWN[8]
ConditionFalse(c) ==
    /\ Kind(c) # "" /\ Decorator(c.d).condition = "known" /\ c.a = 8
    /\ c.pc \notin {"idle", "enter"}
    /\ c.outcome # Raised("CacheNotInitializedError")

\* C21: a call through cacheable, cache_put or cache_evict whose condition
\* answers false issues no backend operation, invokes the operation exactly
\* once, ends as the operation ended (its result, or its error), and no
\* step of the call changes the cache.
C21_ConditionGuard ==
    /\ [](\A s \in DOMAIN calls :
            LET c == calls[s] IN
            ConditionFalse(c) =>
                /\ CountEv(c, BackendEvents) = 0
                /\ CountEv(c, {"unless", "unless.err"}) = 0
                /\ CountEv(c, InvokeEvents) <= 1
                /\ c.pc = "done" =>
                        /\ CountEv(c, InvokeEvents) = 1
                        /\ c.outcome = IF HasEv(c, "invoke.err")
                                       THEN Raised("OperationError")
                                       ELSE Returned(c.result))
    /\ [][\A s \in DOMAIN calls :
            (Steps(s) /\ ConditionFalse(calls'[s])) => redis' = redis
       ]_vars

\* evict_item(8) returned its result and left the entry refresh_item(8)
\* had stored under the same key
C21_Witness ==
    \E s \in DOMAIN calls :
        /\ calls[s].pc = "done" /\ calls[s].d = "evict_item" /\ calls[s].a = 8
        /\ calls[s].trace = <<"cond", "invoke">>
        /\ calls[s].outcome = Returned(UserRecord)
        /\ RedisKeyOf(calls[s]) \in DOMAIN redis
        /\ redis[RedisKeyOf(calls[s])].by.d = "refresh_item"

\* the operation of c, whose condition is true (KNOWN[7]), has returned an
\* empty list, for which unless (len(result) == 0) answers true
UnlessTrue(c) ==
    /\ Kind(c) \in {"cacheable", "cache_put"} /\ Decorator(c.d).unless = "empty"
    /\ HasEv(c, "invoke") /\ c.result = PyList(<<>>)
    /\ c.a = 7

\* C22: in cacheable (after a miss) and cache_put, when unless(result)
\* answers true the call returns the result without calling backend.set and
\* none of its steps after the lookup changes the cache, so the entry under
\* the derived key stays as it was; unless is evaluated only after the
\* invocation, and never by a cacheable call that hit.
C22_UnlessGuard ==
    /\ [](\A s \in DOMAIN calls :
            LET c == calls[s] IN
            /\ UnlessTrue(c) =>
                    /\ CountEv(c, StoreEvents) = 0
                    /\ c.pc \in {"cond", "unless", "done"}
                    /\ c.pc = "done" =>
                            /\ LastEv(c) = "unless"
                            /\ c.outcome = Returned(c.result)
            /\ CountEv(c, {"unless", "unless.err"}) > 0 =>
                    /\ CountEv(c, {"unless", "unless.err"}) = 1
                    /\ HasEv(c, "invoke")
                    /\ FirstIndex(c, {"invoke"}) < FirstIndex(c, {"unless", "unless.err"})
            /\ (Kind(c) = "cacheable" /\ HasEv(c, "get") /\ c.cached # PyNone) =>
                    CountEv(c, {"unless", "unless.err"}) = 0)
    /\ [][\A s \in DOMAIN calls :
            (Steps(s) /\ UnlessTrue(calls'[s])) => redis' = redis
       ]_vars

\* put_item(7) returned an empty list and the entry an earlier call stored
\* under its key is still there
C22_Witness ==
    \E s \in DOMAIN calls :
        /\ calls[s].pc = "done" /\ calls[s].d = "put_item" /\ calls[s].a = 7
        /\ calls[s].trace = <<"invoke", "cond", "unless">>
        /\ calls[s].outcome = Returned(PyList(<<>>))
        /\ RedisKeyOf(calls[s]) \in DOMAIN redis
        /\ redis[RedisKeyOf(calls[s])].by.result = UserRecord

\* the condition of c raises: KNOWN[9]
ConditionRaises(c) ==
    /\ Kind(c) # "" /\ Decorator(c.d).condition = "known" /\ c.a = 9
    /\ c.pc \notin {"idle", "enter"}
    /\ c.outcome # Raised("CacheNotInitializedError")
\* unless of c raises: len(None), the condition being true
UnlessRaises(c) ==
    /\ Kind(c) \in {"cacheable", "cache_put"} /\ Decorator(c.d).unless = "empty"
    /\ HasEv(c, "invoke") /\ c.result = PyNone /\ c.a = 7

\* C23: an exception raised by condition or unless reaches the caller of
\* cacheable, cache_put and cache_evict (after the invocation in cache_put
\* and for unless, before anything else otherwise), and nothing follows it:
\* no set, delete or clear, no change of the cache; a call that returned
\* normally met no failure other than failures of its backend calls.
C23_PredicateFailure ==
    /\ [](\A s \in DOMAIN calls :
            LET c == calls[s] IN
            /\ c.outcome.err \in {"", "OperationError", "PredicateError",
                                  "CacheNotInitializedError"}
            /\ (ConditionRaises(c) /\ Kind(c) # "cache_put") =>
                    /\ c.pc = "done" /\ c.trace = <<"cond.err">>
                    /\ c.outcome = Raised("PredicateError")
            /\ (ConditionRaises(c) /\ Kind(c) = "cache_put") =>
                    /\ c.pc \in {"invoke", "cond", "done"}
                    /\ CountEv(c, BackendEvents) = 0
                    /\ (c.pc = "done" /\ ~HasEv(c, "invoke.err")) =>
                            /\ c.trace = <<"invoke", "cond.err">>
                            /\ c.outcome = Raised("PredicateError")
            /\ UnlessRaises(c) =>
                    /\ c.pc \in {"cond", "unless", "done"}
                    /\ CountEv(c, StoreEvents) = 0
                    /\ c.pc = "done" =>
                            /\ LastEv(c) = "unless.err"
                            /\ c.outcome = Raised("PredicateError")
            /\ c.outcome.st = "ret" =>
                    CountEv(c, {"cond.err", "unless.err", "invoke.err", "evict.err"}) = 0
            /\ (c.pc = "done" /\ CountEv(c, FaultEvents) > 0
                /\ CountEv(c, {"cond.err", "unless.err", "invoke.err"}) = 0) =>
                    c.outcome = Returned(c.result))
    /\ [][\A s \in DOMAIN calls :
            (Steps(s) /\ (ConditionRaises(calls'[s]) \/ UnlessRaises(calls'[s]))) =>
                redis' = redis
       ]_vars

\* put_item(9) ended with the error of its condition after the operation
\* had returned, and the entry under its key is the one refresh_item(9) put
C23_Witness ==
    \E s \in DOMAIN calls :
        /\ calls[s].pc = "done" /\ calls[s].d = "put_item" /\ calls[s].a = 9
        /\ calls[s].trace = <<"invoke", "cond.err">>
        /\ calls[s].outcome = Raised("PredicateError")
        /\ RedisKeyOf(calls[s]) \in DOMAIN redis
        /\ redis[RedisKeyOf(calls[s])].by.d = "refresh_item"

\* key is namespace:identifier:<one more segment> for the decorator D
KeyShape(key, D) ==
    /\ Len(key) = Len(D.namespace) + 2
    /\ SubSeq(key, 1, Len(D.namespace)) = D.namespace
    /\ key[Len(D.namespace) + 1] = IF D.key = KeyNone THEN D.func ELSE D.key
\* c has handed its key to backend.get, backend.set or backend.delete
KeyUsed(c) ==
    CountEv(c, {"get", "get.err", "set", "set.err", "serialize.err",
                "delete", "delete.err"}) > 0

\* the statement of C24 as claimed: every key handed to backend get, set or
\* delete is namespace:identifier:argument_hash, whatever the decorator is
\* configured with.
C24_EveryKey ==
    \A s \in DOMAIN calls : KeyUsed(calls[s]) => KeyShape(calls[s].key, Decorator(calls[s].d))

\* C24 (amended): every key cacheable, cache_put and single-key cache_evict
\* hand to backend get, set or delete is namespace:identifier:argument_hash,
\* identifier being the explicit key if one is given and else the
\* operation's module.qualified-name, whenever no key strategy is supplied
\* or the supplied one raises; with a strategy that answers, the key is the
\* strategy's answer.  Every entry of the server is stored under the
\* backend's prefix followed by such a key.
C24_KeyShape ==
    /\ \A s \in DOMAIN calls :
            LET c == calls[s] D == Decorator(c.d) IN
            KeyUsed(c) =>
                IF D.key_builder = "tenant"
                THEN c.key = KeyBuilderBuild("tenant", D.func, StrategyInput(c))
                ELSE /\ KeyShape(c.key, D)
                     /\ c.key[Len(c.key)] =
                            Sha256Hex(CanonJson(make_json_safe(
                                PyDict(<<PyItem(PyStr("user_id"), PyInt(c.a))>>))))
    /\ \A k \in DOMAIN redis :
            LET D == Decorator(redis[k].by.d) IN
            /\ k[1] = key_prefix(get_backend)
            /\ D.key_builder # "tenant" => KeyShape(Tail(k), D)
    /\ \A d \in StrategyDecorators \cup {"get_vip"} :
            Decorator(d).key_builder # "tenant" =>
                /\ KeyShape(build_cache_key(d, 7), Decorator(d))
                /\ build_cache_key(d, 7)[Len(Decorator(d).namespace) + 1]
                        = build_cache_key(d, 8)[Len(Decorator(d).namespace) + 1]
                /\ build_cache_key(d, 7) # build_cache_key(d, 8)

\* put_audit, whose strategy raises, stored under reports:audit:<hash>
\* while the cache holds an entry of get_vip under users:vip:app.get_vip:<hash>
C24_Witness ==
    \E s \in DOMAIN calls :
        /\ calls[s].pc = "done" /\ calls[s].d = "put_audit"
        /\ calls[s].trace = <<"invoke", "set">>
        /\ Len(calls[s].key) = 3
        /\ SubSeq(calls[s].key, 1, 2) = <<"reports", "audit">>
        /\ \E k \in DOMAIN redis :
                /\ redis[k].by.d = "get_vip"
                /\ SubSeq(k, 2, 4) = <<"users", "vip", "app.get_vip">>

\* C25: once the registry is initialized, a step that changes the active
\* backend, the initialized flag or the default serialization format is a
\* reset; no step of a wrapped call, completed, failed or cancelled,
\* changes any of them.
C25_MutationPoints ==
    [][/\ (initialized /\ <<backend, initialized, defaultFormat>>' #
                            <<backend, initialized, defaultFormat>>) =>
                cfgOp'.op = "reset"
       /\ (\E s \in DOMAIN calls : Steps(s)) =>
                UNCHANGED <<backend, initialized, defaultFormat>>
      ]_vars

\* C26: a cacheable call returns what backend.get answered, without
\* invoking the operation and without calling backend.set, exactly when the
\* answer is not None, falsy answers (0, False, "", [], {}) included; after
\* an answer of None, or a get that raised, it invokes the operation and,
\* when the operation returns, goes on to backend.set.
C26_HitTest ==
    \A s \in DOMAIN calls :
        LET c == calls[s] IN
        (Kind(c) = "cacheable" /\ CountEv(c, {"get", "get.err"}) > 0) =>
            /\ c.trace[1] \in {"get", "get.err"}
            /\ CountEv(c, {"get", "get.err"}) = 1
            /\ HasEv(c, "get") =>
                    c.cached = IF c.found = NoEntry THEN PyNone
                               ELSE IF IsError(deserialize(c.found.data, defaultFormat))
                               THEN PyNone
                               ELSE deserialize(c.found.data, defaultFormat)
            /\ IF c.cached # PyNone
               THEN /\ c.pc = "done" /\ c.trace = <<"get">>
                    /\ c.outcome = Returned(c.cached)
               ELSE /\ c.pc \in {"invoke", "store", "done"}
                    /\ c.pc = "done" =>
                            /\ CountEv(c, InvokeEvents) = 1
                            /\ HasEv(c, "invoke") =>
                                    /\ CountEv(c, StoreEvents) = 1
                                    /\ c.outcome = Returned(c.result)
            /\ (c.found # NoEntry /\ c.found.by.result \in FalsyResults
                /\ HasEv(c, "get")) =>
                    c.outcome = Returned(c.found.by.result)

\* get_user(7) answered False from the cache, the entry refresh_user(7)
\* had put
C26_Witness ==
    \E s \in DOMAIN calls :
        /\ calls[s].pc = "done" /\ calls[s].d = "get_user"
        /\ calls[s].trace = <<"get">>
        /\ calls[s].found.by.d = "refresh_user"
        /\ calls[s].outcome = Returned(PyBool("False"))

\* the bound arguments whose name is not in names
Without(b, names) == SelectSeq(b, LAMBDA it : it.items[1].s \notin names)

\* C27: when the caller supplies excluded_params, the arguments that are
\* canonicalized and hashed are the bound arguments without exactly the
\* supplied names; with an empty supplied set nothing is removed, so two
\* calls that differ in request get different keys.
C27_ExclusionSet ==
    (probe.stage = "keyed" /\ probe.D.excluded_params.supplied) =>
        LET names == probe.D.excluded_params.names IN
        /\ probe.seen1 = Without(probe.b1, names)
        /\ probe.seen2 = Without(probe.b2, names)
        /\ (/\ names = {} /\ probe.D.key_builder = "None"
            /\ DifferOnlyAt(probe.b1, probe.b2, {"request"})
            /\ probe.b1 # probe.b2) => probe.k1 # probe.k2

\* the calls of backend.delete and backend.clear: clear asks for the keys
\* first ("keys") and deletes them with one more command ("clear")
EvictCalls == {"delete", "delete.err", "keys", "keys.err"}

\* C28: a cacheable call issues at most one backend.get, before the
\* invocation, at most one backend.set, after it, and no delete or clear; a
\* cache_put call issues no get and at most one set, after the invocation;
\* a cache_evict call issues at most one delete or clear and no get or set;
\* the operation is invoked at most once.
C28_BackendCallsPerCall ==
    \A s \in DOMAIN calls :
        LET c == calls[s] IN
        Kind(c) # "" =>
            /\ CountEv(c, InvokeEvents) <= 1
            /\ CountEv(c, {"get", "get.err"}) <=
                    (IF Kind(c) = "cacheable" THEN 1 ELSE 0)
            /\ CountEv(c, StoreEvents) <=
                    (IF Kind(c) \in {"cacheable", "cache_put"} THEN 1 ELSE 0)
            /\ CountEv(c, EvictCalls) <= (IF Kind(c) = "cache_evict" THEN 1 ELSE 0)
            /\ CountEv(c, {"clear", "clear.err"}) <= CountEv(c, {"keys"})
            /\ CountEv(c, InvokeEvents) > 0 =>
                    FirstIndex(c, {"get", "get.err"}) < FirstIndex(c, InvokeEvents)
                        \/ CountEv(c, {"get", "get.err"}) = 0
            /\ CountEv(c, StoreEvents) > 0 =>
                    /\ HasEv(c, "invoke")
                    /\ FirstIndex(c, InvokeEvents) < FirstIndex(c, StoreEvents)
            /\ (Kind(c) = "cacheable" /\ c.pc \in {"invoke", "unless", "store"}) =>
                    CountEv(c, {"get", "get.err"}) = 1 \/ c.bypass

\* purge_all_users cleared two entries with its one clear, then invoked
C28_Witness ==
    \E s \in DOMAIN calls :
        /\ calls[s].pc = "done" /\ calls[s].d = "purge_all_users"
        /\ calls[s].trace = <<"keys", "clear", "invoke">>
        /\ Cardinality(calls[s].keys) >= 2

====
